---------------------------- MODULE Spec2Model ----------------------------
(***************************************************************************)
(* ghostbay: an S3-compatible object gateway.  The model covers the        *)
(* request handlers of crates/api/src/handlers.rs, the SQLite catalog of   *)
(* crates/catalog (tables and their UNIQUE / FOREIGN KEY constraints) and  *)
(* the filesystem storage engine of crates/engine/src/local.rs.            *)
(*                                                                         *)
(* Every handler is one action: it runs its catalog queries and its engine *)
(* calls in source order and records the HTTP response in `last`.          *)
(***************************************************************************)
EXTENDS Integers, Sequences, FiniteSets, TLC

(***************************************************************************)
(* Bounds of the model.                                                    *)
(***************************************************************************)
\* longest request body, in bytes
MaxLen == 2
\* multipart uploads ever created (each draws a fresh uuid)
MaxUploads == 1
\* requests that run concurrently
MaxTasks == 2
\* bucket rows ever created (each draws a fresh uuid)
MaxBucketIds == 2
\* stray tmp_<uuid> files left behind by failed renames
MaxTmp == 1
\* largest number of bytes one read of the file stream may return
MaxChunk == 2

(***************************************************************************)
(* Text.  A string is a sequence of tokens: [ch |-> c] is one character,   *)
(* [md5 |-> bytes] stands for the 32 lowercase hex digits of the MD5 of a  *)
(* byte sequence and [md5s |-> text] for those of the MD5 of the bytes of  *)
(* a string.                                                               *)
(***************************************************************************)
Ch(c) == [ch |-> c]

Str1(c) == <<Ch(c)>>

DigitChars == <<"0", "1", "2", "3", "4", "5", "6", "7", "8", "9">>

RECURSIVE DecStr(_)
DecStr(n) ==
    IF n < 10 THEN Str1(DigitChars[n + 1])
    ELSE DecStr(n \div 10) \o Str1(DigitChars[(n % 10) + 1])

Md5Hex(bytes) == <<[md5 |-> bytes]>>

Md5HexOfText(text) == <<[md5s |-> text]>>

Quote(s) == Str1("\"") \o s \o Str1("\"")

RECURSIVE TrimLeftQuotes(_)
TrimLeftQuotes(s) ==
    IF s # <<>> /\ Head(s) = Ch("\"") THEN TrimLeftQuotes(Tail(s)) ELSE s

RECURSIVE TrimRightQuotes(_)
TrimRightQuotes(s) ==
    IF s # <<>> /\ s[Len(s)] = Ch("\"")
    THEN TrimRightQuotes(SubSeq(s, 1, Len(s) - 1))
    ELSE s

TrimQuotes(s) == TrimRightQuotes(TrimLeftQuotes(s))

RECURSIVE Flatten(_)
Flatten(ss) == IF ss = <<>> THEN <<>> ELSE Head(ss) \o Flatten(Tail(ss))

(***************************************************************************)
(* Inputs.                                                                 *)
(***************************************************************************)
\* bucket names are sequences of one-character strings
BK1 == <<"b", "k", "1">>
BK2 == <<"b", "k", "2">>
BadName == <<"A", "B">>

BucketNames == {BK1, BK2}

\* an object key is the sequence of its '/'-separated components
KeyA == <<"a">>
KeyAB == <<"a", "b">>

Keys == {KeyA, KeyAB}

\* request bodies: the byte sequences <<1, ..., n>>, the empty one included
Iota(n) == [i \in 1..n |-> i]

Payloads == {Iota(n) : n \in 0..MaxLen}

(***************************************************************************)
(* Filesystem under data_dir.  A path is <<bucket>> \o key; a node is      *)
(* absent, a directory or a regular file with its bytes.                   *)
(***************************************************************************)
NoNode == [kind |-> "none", bytes |-> <<>>]
DirNode == [kind |-> "dir", bytes |-> <<>>]
FileNode(p) == [kind |-> "file", bytes |-> p]

Prefixes(path) == {SubSeq(path, 1, n) : n \in 1..Len(path)}

object_path(bucket, key) == <<bucket>> \o key

Paths == UNION {Prefixes(object_path(b, k)) : b \in BucketNames, k \in Keys}

Parent(path) == SubSeq(path, 1, Len(path) - 1)

PathExists(data, path) == path = <<>> \/ data[path].kind # "none"

\* std::fs::create_dir_all: create every missing ancestor in order; fails
\* at the first component that exists and is not a directory.
RECURSIVE CreateDirAllFrom(_, _, _)
CreateDirAllFrom(data, path, n) ==
    IF n > Len(path) THEN [ok |-> TRUE, data |-> data]
    ELSE LET pre == SubSeq(path, 1, n)
         IN  IF data[pre].kind = "file" THEN [ok |-> FALSE, data |-> data]
             ELSE CreateDirAllFrom([data EXCEPT ![pre] = DirNode], path, n + 1)

create_dir_all(data, path) == CreateDirAllFrom(data, path, 1)

ensure_bucket_dir(data, bucket) == create_dir_all(data, <<bucket>>)


(***************************************************************************)
(* State.                                                                  *)
(*   buckets, objects, uploads, parts : the catalog tables (the columns    *)
(*       that decide behaviour; row uuids of objects and parts, the        *)
(*       timestamps and the content type are left out)                     *)
(*   store : the filesystem, data |-> nodes under data_dir,                *)
(*       tmp |-> the number of tmp_<uuid> files under temp_dir (no code    *)
(*       reads one back, so their names and bytes are left out),           *)
(*       mpu |-> the mpu_<uuid> directories under temp_dir                 *)
(*   nextBucketId, nextUploadId : the fresh uuids drawn so far             *)
(*   last : the response to the last request, with the request             *)
(*   tasks : the requests in flight that run concurrently, one per slot:   *)
(*       the handler's position and its local variables.  The handler      *)
(*       actions above the concurrency section run a request from start to *)
(*       end with no other request in between and leave tasks alone.       *)
(*   access_keys : the rows of the access_keys table                       *)
(*   now : the server's clock, what Utc::now() returns                     *)
(***************************************************************************)
VARIABLES buckets, objects, uploads, parts, store, nextBucketId, nextUploadId, last,
          tasks, access_keys, now

vars == <<buckets, objects, uploads, parts, store, nextBucketId, nextUploadId, last,
          tasks, access_keys, now>>

catalog == <<buckets, objects, uploads, parts>>

authVars == <<access_keys, now>>

\* An instant is a year and the second within that year.  The clock starts
\* at second StartSec of StartYear.
StartYear == 2026

StartSec == 3600

Instant(year, sec) == [year |-> year, sec |-> sec]

\* Option<T> is the empty sequence (None) or a one-element sequence (Some)
None == <<>>

Some(x) == <<x>>

\* A text is the sequence of its bytes.  The decimal digits of n in a field
\* of w bytes, zero-padded:
RECURSIVE Decimal(_, _)
Decimal(n, w) == IF w = 0 THEN <<>> ELSE Decimal(n \div 10, w - 1) \o <<48 + (n % 10)>>

\* DateTime<Utc>::to_rfc3339: the year in four digits, or with a sign and
\* five digits outside 0..9999, then "-" and the fields below the year, which
\* have a fixed width (the second within the year, in eight digits, stands
\* for "MM-DDTHH:MM:SS+00:00").
to_rfc3339(t) ==
    (IF t.year \in 0..9999 THEN Decimal(t.year, 4) ELSE <<43>> \o Decimal(t.year, 5))
        \o <<45>> \o Decimal(t.sec, 8)

\* the access key the gateway creates when it starts: active, no expiration,
\* policy "admin".  Identifier, uuid and secret are random; the first of
\* each set stands for them.
DefaultKey ==
    [id |-> 1, access_key_id |-> "AKIA1", secret_access_key |-> "secret1",
     created_at |-> to_rfc3339(Instant(StartYear, StartSec)), expires_at |-> None,
     is_active |-> TRUE, policies |-> <<"admin">>]

TaskIds == 1..MaxTasks

\* a slot with no request in flight
Idle == [op |-> "idle"]

\* upload ids stand for the "mpu_<uuid>" strings; the last one is never drawn
UploadIds == 1..(MaxUploads + 1)

\* the part numbers that get a part file in the model: not contiguous, and
\* ordered differently as numbers and as decimal strings
PartNumbers == {2, 10}

\* a directory tmp/mpu_<uuid>: metadata.json (bucket, key) and the part
\* files, files[n] = <<>> when part_<n> is absent and <<bytes>> otherwise
NoDir == [present |-> FALSE, bucket |-> <<>>, key |-> <<>>,
          files |-> [n \in PartNumbers |-> <<>>]]

(***************************************************************************)
(* ApiError and its rendering (error.rs).                                  *)
(***************************************************************************)
ErrorStatus(kind) ==
    CASE kind = "BucketNotFound" -> 404
      [] kind = "ObjectNotFound" -> 404
      [] kind = "BucketAlreadyExists" -> 409
      [] kind = "InvalidBucketName" -> 400
      [] kind = "InvalidObjectKey" -> 400
      [] kind = "AuthenticationFailed" -> 401
      [] kind = "AuthorizationFailed" -> 403
      [] kind = "BadRequest" -> 400
      [] kind = "Storage" -> 500
      [] kind = "Internal" -> 500
      [] kind = "Database" -> 500

ErrorCode(kind) ==
    CASE kind = "BucketNotFound" -> "NoSuchBucket"
      [] kind = "ObjectNotFound" -> "NoSuchKey"
      [] kind = "BucketAlreadyExists" -> "BucketAlreadyExists"
      [] kind = "InvalidBucketName" -> "InvalidBucketName"
      [] kind = "InvalidObjectKey" -> "InvalidObjectKey"
      [] kind = "AuthenticationFailed" -> "AccessDenied"
      [] kind = "AuthorizationFailed" -> "AccessDenied"
      [] kind = "BadRequest" -> "InvalidRequest"
      [] kind = "Storage" -> "InternalError"
      [] kind = "Internal" -> "InternalError"
      [] kind = "Database" -> "InternalError"

\* a response: status and S3 code, the ETag and Content-Length headers
\* (-1: header absent), the body bytes, the UploadId of an
\* InitiateMultipartUploadResponse (0: none), and the request it answers
Response(op, req, status, code, etag, clen, body) ==
    [op |-> op, req |-> req, status |-> status, code |-> code, etag |-> etag,
     content_length |-> clen, body |-> body, upload_id |-> 0]

into_response(op, req, kind) ==
    Response(op, req, ErrorStatus(kind), ErrorCode(kind), <<>>, -1, <<>>)

Success(op, req, status, etag, clen, body) ==
    Response(op, req, status, "", etag, clen, body)

\* a handler that panicked: the connection is dropped without a response
NoResponse(op, req) == Response(op, req, 0, "Panic", <<>>, -1, <<>>)

(***************************************************************************)
(* Catalog repositories (repository.rs) over the tables of migrations.rs.  *)
(***************************************************************************)
BucketFindByName(bkts, name) == {r \in bkts : r.name = name}

\* INSERT INTO buckets: name is UNIQUE
BucketCreate(bkts, id, name) ==
    IF \E r \in bkts : r.name = name
    THEN [ok |-> FALSE, rows |-> bkts]
    ELSE [ok |-> TRUE, rows |-> bkts \cup {[id |-> id, name |-> name]}]

ObjectFindByBucketAndKey(objs, bucket_id, key) ==
    {o \in objs : o.bucket_id = bucket_id /\ o.key = key}

\* INSERT INTO objects: UNIQUE(bucket_id, key), bucket_id REFERENCES buckets
ObjectCreate(bkts, objs, bucket_id, key, etag, size) ==
    IF \/ ObjectFindByBucketAndKey(objs, bucket_id, key) # {}
       \/ ~\E r \in bkts : r.id = bucket_id
    THEN [ok |-> FALSE, rows |-> objs]
    ELSE [ok |-> TRUE,
          rows |-> objs \cup {[bucket_id |-> bucket_id, key |-> key,
                               etag |-> etag, size |-> size]}]

ObjectDelete(objs, bucket_id, key) ==
    objs \ ObjectFindByBucketAndKey(objs, bucket_id, key)

(***************************************************************************)
(* Storage engine (local.rs): single objects.                              *)
(***************************************************************************)
EngineErr(st) == [ok |-> FALSE, st |-> st, etag |-> <<>>]

\* put_object with the write loop losing the last byte of the body
put_object_truncating(st, bucket, key, body) ==
    LET path == object_path(bucket, key)
        d1 == ensure_bucket_dir(st.data, bucket)
        d2 == create_dir_all(d1.data, Parent(path))
        written == SubSeq(body, 1, Len(body) - 1)
    IN  IF ~d1.ok THEN EngineErr([st EXCEPT !.data = d1.data])
        ELSE IF ~d2.ok THEN EngineErr([st EXCEPT !.data = d2.data])
        ELSE IF d2.data[path].kind = "dir"
        THEN EngineErr([st EXCEPT !.data = d2.data, !.tmp = st.tmp + 1])
        ELSE [ok |-> TRUE,
              st |-> [st EXCEPT !.data = [d2.data EXCEPT ![path] = FileNode(written)]],
              etag |-> Md5Hex(body)]

put_object(st, bucket, key, body) ==
    LET path == object_path(bucket, key)
        d1 == ensure_bucket_dir(st.data, bucket)
        d2 == create_dir_all(d1.data, Parent(path))
    IN  IF ~d1.ok THEN EngineErr([st EXCEPT !.data = d1.data])
        ELSE IF ~d2.ok THEN EngineErr([st EXCEPT !.data = d2.data])
        ELSE IF d2.data[path].kind = "dir"
             \* rename(2) of the temp file onto a directory fails; the temp
             \* file stays behind
        THEN EngineErr([st EXCEPT !.data = d2.data, !.tmp = st.tmp + 1])
        ELSE [ok |-> TRUE,
              st |-> [st EXCEPT !.data = [d2.data EXCEPT ![path] = FileNode(body)]],
              etag |-> Md5Hex(body)]

\* the value standing for 2^64 - 1, the result of the wrapped u64
\* subtraction 0 - 1 (every offset of the model is smaller)
U64Max == 2147483647

Min(a, b) == IF a < b THEN a ELSE b

\* tokio_util ReaderStream: the file as a stream of chunks, each read
\* returning up to `chunk` bytes
RECURSIVE ReaderStream(_, _)
ReaderStream(bytes, chunk) ==
    IF bytes = <<>> THEN <<>>
    ELSE LET n == Min(chunk, Len(bytes))
         IN  <<SubSeq(bytes, 1, n)>> \o ReaderStream(SubSeq(bytes, n + 1, Len(bytes)), chunk)

\* StreamExt::skip(n) / take(n): drop / keep the first n items of a stream
StreamSkip(items, n) == SubSeq(items, n + 1, Len(items))

StreamTake(items, n) == SubSeq(items, 1, Min(n, Len(items)))

RangedStream(bytes, chunk, start, end) ==
    StreamTake(StreamSkip(ReaderStream(bytes, chunk), start), end - start + 1)

\* Option<(u64, Option<u64>)> is <<>>, <<start>> or <<start, end>>.
\* overflowChecks: whether the build traps integer overflow (debug) or
\* wraps (release).
get_object(st, bucket, key, range, chunk, overflowChecks) ==
    LET node == st.data[object_path(bucket, key)]
        len == Len(node.bytes)
        lenm1 == IF len = 0 THEN U64Max ELSE len - 1
        start == range[1]
        end == Min(IF Len(range) = 2 THEN range[2] ELSE lenm1, lenm1)
        meta == [content_length |-> len, etag |-> Quote(DecStr(len))]
    IN  IF node.kind = "none" THEN [kind |-> "none", meta |-> meta, data |-> <<>>]
        ELSE IF node.kind = "dir"
             \* reading a directory: the stream's first read fails
        THEN [kind |-> "ok", meta |-> meta, data |-> <<>>]
        ELSE IF range = <<>> THEN [kind |-> "ok", meta |-> meta, data |-> node.bytes]
        ELSE IF len = 0 /\ overflowChecks
        THEN [kind |-> "panic", meta |-> meta, data |-> <<>>]
        ELSE IF start > end \/ start >= len
        THEN [kind |-> "err", meta |-> meta, data |-> <<>>]
        ELSE [kind |-> "ok", meta |-> meta,
              data |-> Flatten(RangedStream(node.bytes, chunk, start, end))]

head_object(st, bucket, key) ==
    LET node == st.data[object_path(bucket, key)]
        len == Len(node.bytes)
    IN  IF node.kind = "none"
        THEN [kind |-> "none", meta |-> [content_length |-> 0, etag |-> <<>>]]
        ELSE [kind |-> "ok",
              meta |-> [content_length |-> len, etag |-> Quote(DecStr(len))]]

delete_object(st, bucket, key) ==
    LET path == object_path(bucket, key)
    IN  IF st.data[path].kind = "none" THEN [ok |-> TRUE, st |-> st, deleted |-> FALSE]
        \* remove_file (unlink) of a directory fails
        ELSE IF st.data[path].kind = "dir" THEN [ok |-> FALSE, st |-> st, deleted |-> FALSE]
        ELSE [ok |-> TRUE, st |-> [st EXCEPT !.data[path] = NoNode], deleted |-> TRUE]

(***************************************************************************)
(* Catalog repositories for multipart uploads and parts.                   *)
(***************************************************************************)
\* the row uuid of the upload whose upload_id is n
UploadRowId(n) == <<"upload-row", n>>

UploadFindByUploadId(ups, upload_id) == {u \in ups : u.upload_id = upload_id}

\* INSERT INTO multipart_uploads: upload_id is UNIQUE, bucket_id REFERENCES
\* buckets
UploadCreate(bkts, ups, bucket_id, object_key, upload_id) ==
    IF \/ UploadFindByUploadId(ups, upload_id) # {}
       \/ ~\E r \in bkts : r.id = bucket_id
    THEN [ok |-> FALSE, rows |-> ups]
    ELSE [ok |-> TRUE,
          rows |-> ups \cup {[id |-> UploadRowId(upload_id), bucket_id |-> bucket_id,
                              object_key |-> object_key, upload_id |-> upload_id]}]

\* a delete that matches no row
UploadDelete_keeping(ups, prts, upload_id) == [uploads |-> ups, parts |-> prts]

\* DELETE FROM multipart_uploads; multipart_parts.upload_id is ON DELETE
\* CASCADE
UploadDelete(ups, prts, upload_id) ==
    LET gone == {u.id : u \in UploadFindByUploadId(ups, upload_id)}
    IN  [uploads |-> {u \in ups : u.id \notin gone},
         parts |-> {q \in prts : q.upload_id \notin gone}]

PartFindByUploadAndPart(prts, upload_row, part_number) ==
    {q \in prts : q.upload_id = upload_row /\ q.part_number = part_number}

\* INSERT INTO multipart_parts: UNIQUE(upload_id, part_number), upload_id
\* REFERENCES multipart_uploads
PartCreate(ups, prts, upload_row, part_number, etag, size) ==
    IF \/ PartFindByUploadAndPart(prts, upload_row, part_number) # {}
       \/ ~\E u \in ups : u.id = upload_row
    THEN [ok |-> FALSE, rows |-> prts]
    ELSE [ok |-> TRUE,
          rows |-> prts \cup {[upload_id |-> upload_row, part_number |-> part_number,
                               etag |-> etag, size |-> size]}]

PartListByUpload(prts, upload_row) == {q \in prts : q.upload_id = upload_row}

PartDeleteByUpload(prts, upload_row) == prts \ PartListByUpload(prts, upload_row)

RECURSIVE SumSizes(_)
SumSizes(rows) ==
    IF rows = {} THEN 0
    ELSE LET r == CHOOSE x \in rows : TRUE IN r.size + SumSizes(rows \ {r})

(***************************************************************************)
(* Storage engine (local.rs): multipart uploads.                           *)
(***************************************************************************)
create_multipart_upload(st, bucket, key, upload_id) ==
    LET d1 == ensure_bucket_dir(st.data, bucket)
    IN  IF ~d1.ok THEN EngineErr([st EXCEPT !.data = d1.data])
        ELSE [ok |-> TRUE,
              st |-> [st EXCEPT !.data = d1.data,
                                !.mpu[upload_id] = [NoDir EXCEPT !.present = TRUE,
                                                                 !.bucket = bucket,
                                                                 !.key = key]],
              etag |-> <<>>]

upload_part(st, upload_id, part_number, body) ==
    IF ~st.mpu[upload_id].present THEN EngineErr(st)
    ELSE [ok |-> TRUE,
          st |-> [st EXCEPT !.mpu[upload_id].files[part_number] = <<body>>],
          etag |-> Md5Hex(body)]

\* the request's parts left in the order the client listed them
SortParts_unsorted(ps) == ps

\* an engine that fails after it has removed the upload's directory
complete_multipart_upload_removing(st, bucket, key, upload_id, req_parts) ==
    EngineErr([st EXCEPT !.mpu[upload_id] = NoDir])

\* Vec::sort_by_key(|p| p.part_number): a stable sort
RECURSIVE InsertPart(_, _)
InsertPart(sorted, part) ==
    IF sorted = <<>> THEN <<part>>
    ELSE IF Head(sorted).part_number <= part.part_number
    THEN <<Head(sorted)>> \o InsertPart(Tail(sorted), part)
    ELSE <<part>> \o sorted

RECURSIVE SortParts(_)
SortParts(ps) ==
    IF ps = <<>> THEN <<>>
    ELSE InsertPart(SortParts(SubSeq(ps, 1, Len(ps) - 1)), ps[Len(ps)])

PartFileExists(dir, part_number) ==
    part_number \in PartNumbers /\ dir.files[part_number] # <<>>

CompositeETag(sorted) ==
    Md5HexOfText(Flatten([i \in 1..Len(sorted) |-> sorted[i].etag]))
        \o Str1("-") \o DecStr(Len(sorted))

complete_multipart_upload(st, bucket, key, upload_id, req_parts) ==
    LET dir == st.mpu[upload_id]
        sorted_parts == SortParts(req_parts)
        final_path == object_path(bucket, key)
        d1 == create_dir_all(st.data, Parent(final_path))
        part_data == [i \in 1..Len(sorted_parts) |->
                         dir.files[sorted_parts[i].part_number][1]]
    IN  IF ~dir.present THEN EngineErr(st)
        ELSE IF dir.bucket # bucket \/ dir.key # key THEN EngineErr(st)
        ELSE IF \E i \in 1..Len(sorted_parts) :
                    ~PartFileExists(dir, sorted_parts[i].part_number)
        THEN EngineErr(st)
        ELSE IF ~d1.ok THEN EngineErr([st EXCEPT !.data = d1.data])
        \* File::create on a directory fails
        ELSE IF d1.data[final_path].kind = "dir"
        THEN EngineErr([st EXCEPT !.data = d1.data])
        ELSE [ok |-> TRUE,
              st |-> [st EXCEPT
                        !.data = [d1.data EXCEPT
                                    ![final_path] = FileNode(Flatten(part_data))],
                        !.mpu[upload_id] = NoDir],
              etag |-> CompositeETag(sorted_parts)]

\* an abort that leaves the upload's directory in place
abort_multipart_upload_keeping(st, upload_id) == st

abort_multipart_upload(st, upload_id) ==
    [st EXCEPT !.mpu[upload_id] = NoDir]

(***************************************************************************)
(* Bucket handlers (handlers.rs).                                          *)
(***************************************************************************)
BucketNameChars ==
    {"a", "b", "c", "d", "e", "f", "g", "h", "i", "j", "k", "l", "m", "n", "o",
     "p", "q", "r", "s", "t", "u", "v", "w", "x", "y", "z",
     "0", "1", "2", "3", "4", "5", "6", "7", "8", "9", "-"}

\* a validation whose upper length limit is one short
validate_bucket_name_short(name) ==
    /\ ~(Len(name) = 0 \/ Len(name) < 3 \/ Len(name) > 62)
    /\ \A i \in 1..Len(name) : name[i] \in BucketNameChars

validate_bucket_name(name) ==
    /\ ~(Len(name) = 0 \/ Len(name) < 3 \/ Len(name) > 63)
    /\ \A i \in 1..Len(name) : name[i] \in BucketNameChars

CreateBucket(name) ==
    LET req == [bucket |-> name]
        made == BucketCreate(buckets, nextBucketId, name)
    IN  IF ~validate_bucket_name(name)
        THEN /\ last' = into_response("CreateBucket", req, "InvalidBucketName")
             /\ UNCHANGED <<catalog, store, nextBucketId, nextUploadId, tasks, authVars>>
        ELSE IF BucketFindByName(buckets, name) # {}
        THEN /\ last' = into_response("CreateBucket", req, "BucketAlreadyExists")
             /\ UNCHANGED <<catalog, store, nextBucketId, nextUploadId, tasks, authVars>>
        ELSE /\ nextBucketId <= MaxBucketIds
             /\ buckets' = made.rows
             /\ nextBucketId' = nextBucketId + 1
             /\ last' = Success("CreateBucket", req, 200, <<>>, -1, <<>>)
             /\ UNCHANGED <<objects, uploads, parts, store, nextUploadId, tasks, authVars>>

\* a DELETE FROM buckets that leaves the rows of the other tables alone
BucketDelete_noCascade(name) ==
    LET gone == {r.id : r \in BucketFindByName(buckets, name)}
    IN  [deleted |-> gone # {},
         buckets |-> {r \in buckets : r.id \notin gone},
         objects |-> objects,
         uploads |-> uploads,
         parts |-> parts]

\* DELETE FROM buckets; the foreign keys of objects, multipart_uploads and
\* multipart_parts are ON DELETE CASCADE
BucketDelete(name) ==
    LET gone == {r.id : r \in BucketFindByName(buckets, name)}
        goneUploads == {u.id : u \in {x \in uploads : x.bucket_id \in gone}}
    IN  [deleted |-> gone # {},
         buckets |-> {r \in buckets : r.id \notin gone},
         objects |-> {o \in objects : o.bucket_id \notin gone},
         uploads |-> {u \in uploads : u.bucket_id \notin gone},
         parts |-> {q \in parts : q.upload_id \notin goneUploads}]

DeleteBucket(name) ==
    LET req == [bucket |-> name]
        del == BucketDelete(name)
    IN  IF ~del.deleted
        THEN /\ last' = into_response("DeleteBucket", req, "BucketNotFound")
             /\ UNCHANGED <<catalog, store, nextBucketId, nextUploadId, tasks, authVars>>
        ELSE /\ buckets' = del.buckets
             /\ objects' = del.objects
             /\ uploads' = del.uploads
             /\ parts' = del.parts
             /\ last' = Success("DeleteBucket", req, 204, <<>>, -1, <<>>)
             /\ UNCHANGED <<store, nextBucketId, nextUploadId, tasks, authVars>>

(***************************************************************************)
(* Object handlers (handlers.rs).                                          *)
(***************************************************************************)
TheRow(rows) == CHOOSE r \in rows : TRUE

PutObject(bucket_name, key, body) ==
    LET req == [bucket |-> bucket_name, key |-> key, body |-> body]
        found == BucketFindByName(buckets, bucket_name)
        put == put_object(store, bucket_name, key, body)
        made == ObjectCreate(buckets, objects, TheRow(found).id, key, put.etag, Len(body))
    IN  IF found = {}
        THEN /\ last' = into_response("PutObject", req, "BucketNotFound")
             /\ UNCHANGED <<catalog, store, nextBucketId, nextUploadId, tasks, authVars>>
        ELSE /\ put.st.tmp <= MaxTmp
             /\ store' = put.st
             /\ IF ~put.ok
                THEN /\ last' = into_response("PutObject", req, "Storage")
                     /\ UNCHANGED objects
                ELSE IF ~made.ok
                THEN /\ last' = into_response("PutObject", req, "Internal")
                     /\ UNCHANGED objects
                ELSE /\ objects' = made.rows
                     /\ last' = Success("PutObject", req, 200, Quote(put.etag), -1, <<>>)
             /\ UNCHANGED <<buckets, uploads, parts, nextBucketId, nextUploadId, tasks, authVars>>

\* the Range header is absent (<<>>), <<unit, start>> ("unit=start-") or
\* <<unit, start, end>> ("unit=start-end")
parse_range_header(header) ==
    IF header = <<>> THEN <<>>
    ELSE IF header[1] # "bytes" THEN <<>>
    ELSE Tail(header)

\* a handler that serves whatever the engine finds at the path, without
\* the bucket and object lookups
GetObjectResponse_engineFirst(bkts, objs, st, bucket_name, key, header, chunk, overflowChecks) ==
    LET req == [bucket |-> bucket_name, key |-> key, range |-> header]
        got == get_object(st, bucket_name, key, parse_range_header(header),
                          chunk, overflowChecks)
    IN  IF got.kind = "ok"
        THEN Success("GetObject", req, 200, got.meta.etag,
                     got.meta.content_length, got.data)
        ELSE into_response("GetObject", req, "ObjectNotFound")

\* what get_object (the handler) answers in a given catalog and store
GetObjectResponse(bkts, objs, st, bucket_name, key, header, chunk, overflowChecks) ==
    LET req == [bucket |-> bucket_name, key |-> key, range |-> header]
        found == BucketFindByName(bkts, bucket_name)
        row == ObjectFindByBucketAndKey(objs, TheRow(found).id, key)
        got == get_object(st, bucket_name, key, parse_range_header(header),
                          chunk, overflowChecks)
    IN  IF found = {} THEN into_response("GetObject", req, "BucketNotFound")
        ELSE IF row = {} THEN into_response("GetObject", req, "ObjectNotFound")
        ELSE IF got.kind = "panic" THEN NoResponse("GetObject", req)
        ELSE IF got.kind = "err" THEN into_response("GetObject", req, "Storage")
        ELSE IF got.kind = "none" THEN into_response("GetObject", req, "ObjectNotFound")
        ELSE Success("GetObject", req, 200, got.meta.etag,
                     got.meta.content_length, got.data)

GetObject(bucket_name, key, header, chunk, overflowChecks) ==
    /\ last' = GetObjectResponse(buckets, objects, store, bucket_name, key,
                                 header, chunk, overflowChecks)
    /\ UNCHANGED <<catalog, store, nextBucketId, nextUploadId, tasks, authVars>>

\* what head_object (the handler) answers in a given catalog and store
HeadObjectResponse(bkts, objs, st, bucket_name, key) ==
    LET req == [bucket |-> bucket_name, key |-> key]
        found == BucketFindByName(bkts, bucket_name)
        row == ObjectFindByBucketAndKey(objs, TheRow(found).id, key)
        got == head_object(st, bucket_name, key)
    IN  IF found = {} THEN into_response("HeadObject", req, "BucketNotFound")
        ELSE IF row = {} THEN into_response("HeadObject", req, "ObjectNotFound")
        ELSE IF got.kind = "none" THEN into_response("HeadObject", req, "ObjectNotFound")
        ELSE Success("HeadObject", req, 200, got.meta.etag,
                     got.meta.content_length, <<>>)

HeadObject(bucket_name, key) ==
    /\ last' = HeadObjectResponse(buckets, objects, store, bucket_name, key)
    /\ UNCHANGED <<catalog, store, nextBucketId, nextUploadId, tasks, authVars>>

DeleteObject(bucket_name, key) ==
    LET req == [bucket |-> bucket_name, key |-> key]
        found == BucketFindByName(buckets, bucket_name)
        del == delete_object(store, bucket_name, key)
    IN  IF found = {}
        THEN /\ last' = into_response("DeleteObject", req, "BucketNotFound")
             /\ UNCHANGED <<catalog, store, nextBucketId, nextUploadId, tasks, authVars>>
        ELSE /\ objects' = ObjectDelete(objects, TheRow(found).id, key)
             /\ store' = del.st
             /\ last' = IF ~del.ok THEN into_response("DeleteObject", req, "Storage")
                        ELSE Success("DeleteObject", req, 204, <<>>, -1, <<>>)
             /\ UNCHANGED <<buckets, uploads, parts, nextBucketId, nextUploadId, tasks, authVars>>

(***************************************************************************)
(* Multipart handlers (handlers.rs).                                       *)
(***************************************************************************)
CreateMultipartUpload(bucket_name, key) ==
    LET req == [bucket |-> bucket_name, key |-> key]
        found == BucketFindByName(buckets, bucket_name)
        made == create_multipart_upload(store, bucket_name, key, nextUploadId)
        row == UploadCreate(buckets, uploads, TheRow(found).id, key, nextUploadId)
    IN  IF found = {}
        THEN /\ last' = into_response("CreateMultipartUpload", req, "BucketNotFound")
             /\ UNCHANGED <<catalog, store, nextBucketId, nextUploadId, tasks, authVars>>
        ELSE /\ nextUploadId <= MaxUploads
             /\ nextUploadId' = nextUploadId + 1
             /\ store' = made.st
             /\ IF ~made.ok
                THEN /\ last' = into_response("CreateMultipartUpload", req, "Storage")
                     /\ UNCHANGED uploads
                ELSE IF ~row.ok
                THEN /\ last' = into_response("CreateMultipartUpload", req, "Internal")
                     /\ UNCHANGED uploads
                ELSE /\ uploads' = row.rows
                     /\ last' = [Success("CreateMultipartUpload", req, 200, <<>>, -1, <<>>)
                                   EXCEPT !.upload_id = nextUploadId]
             /\ UNCHANGED <<buckets, objects, parts, nextBucketId, tasks, authVars>>

MaxPartNumber == 10000

\* a handler without the part-number check: it answers whatever the upload
\* lookup and the engine say, for any part number
UploadPart_unchecked(bucket_name, key, upload_id, part_number, body) ==
    LET req == [bucket |-> bucket_name, key |-> key, upload_id |-> upload_id,
                part_number |-> part_number, body |-> body]
        found == UploadFindByUploadId(uploads, upload_id)
    IN  /\ last' = IF found = {} THEN into_response("UploadPart", req, "BadRequest")
                   ELSE Success("UploadPart", req, 200, Quote(Md5Hex(body)), -1, <<>>)
        /\ parts' = IF found = {} THEN parts
                    ELSE parts \cup {[upload_id |-> TheRow(found).id,
                                      part_number |-> part_number,
                                      etag |-> Md5Hex(body), size |-> Len(body)]}
        /\ UNCHANGED <<buckets, objects, uploads, store, nextBucketId, nextUploadId, tasks, authVars>>

UploadPart(bucket_name, key, upload_id, part_number, body) ==
    LET req == [bucket |-> bucket_name, key |-> key, upload_id |-> upload_id,
                part_number |-> part_number, body |-> body]
        found == UploadFindByUploadId(uploads, upload_id)
        put == upload_part(store, upload_id, part_number, body)
        row == PartCreate(uploads, parts, TheRow(found).id, part_number,
                          put.etag, Len(body))
    IN  IF part_number < 1 \/ part_number > MaxPartNumber
        THEN /\ last' = into_response("UploadPart", req, "BadRequest")
             /\ UNCHANGED <<catalog, store, nextBucketId, nextUploadId, tasks, authVars>>
        ELSE IF found = {}
        THEN /\ last' = into_response("UploadPart", req, "BadRequest")
             /\ UNCHANGED <<catalog, store, nextBucketId, nextUploadId, tasks, authVars>>
        ELSE /\ store' = put.st
             /\ IF ~put.ok
                THEN /\ last' = into_response("UploadPart", req, "Storage")
                     /\ UNCHANGED parts
                ELSE IF ~row.ok
                THEN /\ last' = into_response("UploadPart", req, "Internal")
                     /\ UNCHANGED parts
                ELSE /\ parts' = row.rows
                     /\ last' = Success("UploadPart", req, 200, Quote(put.etag), -1, <<>>)
             /\ UNCHANGED <<buckets, objects, uploads, nextBucketId, nextUploadId, tasks, authVars>>

\* the parts of the request body, as the engine gets them: quotes trimmed
\* from each ETag
ConvertParts(req_parts) ==
    [i \in 1..Len(req_parts) |->
        [part_number |-> req_parts[i].part_number,
         etag |-> TrimQuotes(req_parts[i].etag)]]

CompleteMultipartUpload(bucket_name, key, upload_id, req_parts) ==
    LET req == [bucket |-> bucket_name, key |-> key, upload_id |-> upload_id,
                parts |-> req_parts]
        found == UploadFindByUploadId(uploads, upload_id)
        upload == TheRow(found)
        bfound == BucketFindByName(buckets, bucket_name)
        bucket == TheRow(bfound)
        done == complete_multipart_upload(store, bucket_name, key, upload_id,
                                          ConvertParts(req_parts))
        total_size == SumSizes(PartListByUpload(parts, upload.id))
        made == ObjectCreate(buckets, objects, bucket.id, key, done.etag, total_size)
        cleaned == UploadDelete(uploads, PartDeleteByUpload(parts, upload.id), upload_id)
    IN  IF found = {}
        THEN /\ last' = into_response("CompleteMultipartUpload", req, "BadRequest")
             /\ UNCHANGED <<catalog, store, nextBucketId, nextUploadId, tasks, authVars>>
        ELSE IF bfound = {}
        THEN /\ last' = into_response("CompleteMultipartUpload", req, "BucketNotFound")
             /\ UNCHANGED <<catalog, store, nextBucketId, nextUploadId, tasks, authVars>>
        ELSE IF upload.bucket_id # bucket.id \/ upload.object_key # key
        THEN /\ last' = into_response("CompleteMultipartUpload", req, "BadRequest")
             /\ UNCHANGED <<catalog, store, nextBucketId, nextUploadId, tasks, authVars>>
        ELSE /\ store' = done.st
             /\ IF ~done.ok
                THEN /\ last' = into_response("CompleteMultipartUpload", req, "Storage")
                     /\ UNCHANGED <<objects, uploads, parts>>
                ELSE IF ~made.ok
                THEN /\ last' = into_response("CompleteMultipartUpload", req, "Internal")
                     /\ UNCHANGED <<objects, uploads, parts>>
                ELSE /\ objects' = made.rows
                     /\ uploads' = cleaned.uploads
                     /\ parts' = cleaned.parts
                     /\ last' = Success("CompleteMultipartUpload", req, 200,
                                        Quote(done.etag), -1, <<>>)
             /\ UNCHANGED <<buckets, nextBucketId, nextUploadId, tasks, authVars>>

AbortMultipartUpload(bucket_name, key, upload_id) ==
    LET req == [bucket |-> bucket_name, key |-> key, upload_id |-> upload_id]
        found == UploadFindByUploadId(uploads, upload_id)
        cleaned == UploadDelete(uploads, PartDeleteByUpload(parts, TheRow(found).id),
                                upload_id)
    IN  IF found = {}
        THEN /\ last' = into_response("AbortMultipartUpload", req, "BadRequest")
             /\ UNCHANGED <<catalog, store, nextBucketId, nextUploadId, tasks, authVars>>
        ELSE /\ store' = abort_multipart_upload(store, upload_id)
             /\ uploads' = cleaned.uploads
             /\ parts' = cleaned.parts
             /\ last' = Success("AbortMultipartUpload", req, 204, <<>>, -1, <<>>)
             /\ UNCHANGED <<buckets, objects, nextBucketId, nextUploadId, tasks, authVars>>

(***************************************************************************)
(* The server after start-up: empty catalog, empty data and temp roots.    *)
(***************************************************************************)
Init ==
    /\ buckets = {}
    /\ objects = {}
    /\ uploads = {}
    /\ parts = {}
    /\ store = [data |-> [p \in Paths |-> NoNode], tmp |-> 0,
                mpu |-> [u \in UploadIds |-> NoDir]]
    /\ nextBucketId = 1
    /\ nextUploadId = 1
    /\ last = Response("none", [bucket |-> <<>>], 0, "", <<>>, -1, <<>>)
    /\ tasks = [t \in TaskIds |-> Idle]
    /\ access_keys = {DefaultKey}
    /\ now = Instant(StartYear, StartSec)

Next ==
    \/ \E name \in {BK1, BadName} : CreateBucket(name)
    \/ DeleteBucket(BK1)
    \/ \E k \in Keys, p \in Payloads : PutObject(BK1, k, p)
    \/ \E k \in Keys : GetObject(BK1, k, <<>>, 1, TRUE)
    \/ \E k \in Keys : HeadObject(BK1, k)
    \/ \E k \in Keys : DeleteObject(BK1, k)

Spec == Init /\ [][Next]_vars

(***************************************************************************)
(* Properties of the object handlers.                                      *)
(***************************************************************************)
GetNow(bucket_name, key) ==
    GetObjectResponse(buckets, objects, store, bucket_name, key, <<>>, 1, TRUE)

HeadNow(bucket_name, key) ==
    HeadObjectResponse(buckets, objects, store, bucket_name, key)

RowsNow(bucket_name, key) ==
    {o \in objects : /\ o.key = key
                     /\ \E r \in BucketFindByName(buckets, bucket_name) : r.id = o.bucket_id}

\* C1: right after a PUT(b,k,p) that returned 200, GET(b,k) answers 200 with
\* exactly the bytes p, and the ETag the PUT returned is the quoted lowercase
\* hex MD5 of p.
C1_PutGetRoundTrip ==
    (last.op = "PutObject" /\ last.status = 200) =>
        /\ GetNow(last.req.bucket, last.req.key).status = 200
        /\ GetNow(last.req.bucket, last.req.key).body = last.req.body
        /\ last.etag = Quote(Md5Hex(last.req.body))

\* a PUT of a non-empty body under a nested key has succeeded
C1_Witness ==
    /\ last.op = "PutObject"
    /\ last.status = 200
    /\ last.req.key = KeyAB
    /\ Len(last.req.body) = MaxLen

\* C2: a PUT(b,k,p2) on a key that already holds an object (a catalog row and
\* a blob) succeeds, and leaves GET(b,k) = p2 and exactly one catalog row for
\* (b,k) with the ETag and size of p2.
C2_PutOverwrite ==
    [][\A k \in Keys, p2 \in Payloads :
        (/\ PutObject(BK1, k, p2)
         /\ RowsNow(BK1, k) # {}
         /\ store.data[object_path(BK1, k)].kind = "file")
        => /\ last'.status = 200
           /\ GetObjectResponse(buckets', objects', store', BK1, k, <<>>, 1, TRUE).body = p2
           /\ {[etag |-> o.etag, size |-> o.size] :
                 o \in {x \in objects' : x.key = k}}
                = {[etag |-> Md5Hex(p2), size |-> Len(p2)]}]_vars

\* C3: right after a PUT(b,k,p) that returned 200, HEAD(b,k) and GET(b,k)
\* report Content-Length len(p) and the ETag that the PUT returned.
C3_HeadGetMatchPut ==
    (last.op = "PutObject" /\ last.status = 200) =>
        /\ HeadNow(last.req.bucket, last.req.key).content_length = Len(last.req.body)
        /\ GetNow(last.req.bucket, last.req.key).content_length = Len(last.req.body)
        /\ HeadNow(last.req.bucket, last.req.key).etag = last.etag
        /\ GetNow(last.req.bucket, last.req.key).etag = last.etag

\* C4: every DELETE(b,k) on an existing bucket, a repeated one included,
\* answers 204, and leaves neither a catalog row nor a blob for (b,k).
C4_DeleteIdempotent ==
    (last.op = "DeleteObject" /\ last.code # "NoSuchBucket") =>
        /\ last.status = 204
        /\ RowsNow(last.req.bucket, last.req.key) = {}
        /\ store.data[object_path(last.req.bucket, last.req.key)].kind # "file"

(***************************************************************************)
(* Ranged reads: one bucket, one key, every Range header over the offsets  *)
(* 0..MaxLen, every chunk size of the file stream and both build modes.    *)
(***************************************************************************)
Offsets == 0..MaxLen

RangeHeaders ==
    {<<>>} \cup {<<u, s>> : u \in {"bytes", "items"}, s \in Offsets}
           \cup {<<u, s, e>> : u \in {"bytes", "items"}, s \in Offsets, e \in Offsets}

NextRange ==
    \/ CreateBucket(BK1)
    \/ \E p \in Payloads : PutObject(BK1, KeyA, p)
    \/ DeleteObject(BK1, KeyA)
    \/ \E h \in RangeHeaders, chunk \in 1..MaxChunk, oc \in BOOLEAN :
          GetObject(BK1, KeyA, h, chunk, oc)

SpecRange == Init /\ [][NextRange]_vars

ObjectStored(bucket_name, key) ==
    /\ RowsNow(bucket_name, key) # {}
    /\ store.data[object_path(bucket_name, key)].kind = "file"

BlobNow(bucket_name, key) == store.data[object_path(bucket_name, key)].bytes

\* C5: a GET with Range bytes=s-e, 0 <= s <= e < len(p), on an object holding
\* p answers 200 with exactly the bytes p[s..=e] and Content-Length e-s+1,
\* whatever the chunk size of the file stream.
C5_RangedRead ==
    (/\ last.op = "GetObject"
     /\ Len(last.req.range) = 3
     /\ last.req.range[1] = "bytes"
     /\ ObjectStored(last.req.bucket, last.req.key)
     /\ last.req.range[2] <= last.req.range[3]
     /\ last.req.range[3] < Len(BlobNow(last.req.bucket, last.req.key)))
    => /\ last.status = 200
       /\ last.body = SubSeq(BlobNow(last.req.bucket, last.req.key),
                             last.req.range[2] + 1, last.req.range[3] + 1)
       /\ last.content_length = last.req.range[3] - last.req.range[2] + 1

BadRange(range, len) ==
    /\ range # <<>>
    /\ \/ range[1] >= len
       \/ Len(range) = 2 /\ range[1] > range[2]

\* C6: a ranged GET on a stored object with start > end or start >= length
\* (any range on an empty object included) answers 400 InvalidRequest with no
\* bytes, and changes neither the catalog nor the storage.
C6_BadRange ==
    [][\A h \in RangeHeaders, chunk \in 1..MaxChunk, oc \in BOOLEAN :
        (/\ GetObject(BK1, KeyA, h, chunk, oc)
         /\ ObjectStored(BK1, KeyA)
         /\ BadRange(parse_range_header(h), Len(BlobNow(BK1, KeyA))))
        => /\ last'.status = 400
           /\ last'.code = "InvalidRequest"
           /\ last'.body = <<>>
           /\ UNCHANGED <<catalog, store>>]_vars

(***************************************************************************)
(* Multipart uploads: two buckets, the upload's parts and what a client    *)
(* may list in a CompleteMultipartUpload request.                          *)
(***************************************************************************)
PartBodies == Payloads \ {<<>>}

\* the part numbers a client may send: two valid ones, 0 and 10001
PartNumberInputs == PartNumbers \cup {0, MaxPartNumber + 1}

\* the part numbers a Complete request lists: any order, repeats allowed
PartNumberLists ==
    {<<>>} \cup {<<n>> : n \in PartNumbers}
           \cup {<<n, m>> : n \in PartNumbers, m \in PartNumbers}

BogusETag == Str1("x")

\* the ETag a client sends for part n of upload u: the one UploadPart
\* returned for it (quoted, as in the response header), or a made-up one
\* for a part it never uploaded
ClientETag(upload_id, part_number) ==
    LET rows == PartFindByUploadAndPart(parts, UploadRowId(upload_id), part_number)
    IN  IF rows # {} THEN Quote(TheRow(rows).etag) ELSE BogusETag

ClientParts(upload_id, numbers) ==
    [i \in 1..Len(numbers) |->
        [part_number |-> numbers[i], etag |-> ClientETag(upload_id, numbers[i])]]

CompleteRequests ==
    BucketNames \X Keys \X UploadIds \X PartNumberLists

NextMpu ==
    \/ \E name \in BucketNames : CreateBucket(name)
    \/ PutObject(BK1, KeyAB, Iota(1))
    \/ \E k \in Keys : CreateMultipartUpload(BK1, k)
    \/ \E u \in UploadIds, n \in PartNumberInputs, body \in PartBodies :
          UploadPart(BK1, KeyA, u, n, body)
    \/ \E c \in CompleteRequests :
          CompleteMultipartUpload(c[1], c[2], c[3], ClientParts(c[3], c[4]))
    \/ \E u \in UploadIds : AbortMultipartUpload(BK1, KeyA, u)

SpecMpu == Init /\ [][NextMpu]_vars

\* this step is a CompleteMultipartUpload answering the request last'.req
\* (every handler records its request and its response in last)
CompletesNow == last'.op = "CompleteMultipartUpload" /\ vars' # vars

\* the part numbers a Complete request lists, in the order it lists them
ReqNumbers(req) == [i \in 1..Len(req.parts) |-> req.parts[i].part_number]

\* the upload u is open on (bucket_name, key): its row and its directory
UploadOpenOn(bucket_name, key, upload_id) ==
    /\ store.mpu[upload_id].present
    /\ \E u \in UploadFindByUploadId(uploads, upload_id) :
          /\ u.object_key = key
          /\ \E r \in BucketFindByName(buckets, bucket_name) : r.id = u.bucket_id

\* the part files of upload u, as a set of part numbers
UploadedParts(upload_id) ==
    {n \in PartNumbers : store.mpu[upload_id].files[n] # <<>>}

\* every part of upload u was uploaded once: its row is that of its file
PartsUploadedOnce(upload_id) ==
    \A n \in PartNumbers :
        LET rows == PartFindByUploadAndPart(parts, UploadRowId(upload_id), n)
        IN  IF n \in UploadedParts(upload_id)
            THEN /\ rows # {}
                 /\ TheRow(rows).etag = Md5Hex(store.mpu[upload_id].files[n][1])
            ELSE rows = {}

\* the numbers of a set of parts in ascending order
RECURSIVE Ascending(_)
Ascending(ns) ==
    IF ns = {} THEN <<>>
    ELSE LET least == CHOOSE n \in ns : \A m \in ns : n <= m
         IN  <<least>> \o Ascending(ns \ {least})

\* the bytes of the parts of upload u in ascending part-number order
PartsConcatenated(upload_id) ==
    LET order == Ascending(UploadedParts(upload_id))
    IN  Flatten([i \in 1..Len(order) |-> store.mpu[upload_id].files[order[i]][1]])

\* hex(MD5(the parts' ETag strings concatenated in ascending order))-N
ExpectedMultipartETag(upload_id) ==
    LET order == Ascending(UploadedParts(upload_id))
    IN  Md5HexOfText(Flatten([i \in 1..Len(order) |->
                        Md5Hex(store.mpu[upload_id].files[order[i]][1])]))
            \o Str1("-") \o DecStr(Len(order))

\* the final path of (bucket_name, key) is free and its parent can be made
PathFree(bucket_name, key) ==
    /\ store.data[object_path(bucket_name, key)].kind = "none"
    /\ create_dir_all(store.data, Parent(object_path(bucket_name, key))).ok

\* the request lists every uploaded part of the upload exactly once
ListsEveryPartOnce(upload_id, numbers) ==
    /\ {numbers[i] : i \in 1..Len(numbers)} = UploadedParts(upload_id)
    /\ Len(numbers) = Cardinality(UploadedParts(upload_id))
    /\ Len(numbers) >= 1

C8_PartReplacement ==
    [][LET c == last'.req IN
         ( /\ last'.op = "UploadPart" /\ vars' # vars
           /\ c.part_number \in PartNumbers
           /\ store.mpu[c.upload_id].present
           /\ PartFindByUploadAndPart(parts, UploadRowId(c.upload_id), c.part_number) # {} )
         => /\ last'.status = 200
            /\ {[etag |-> q.etag, size |-> q.size] :
                  q \in PartFindByUploadAndPart(parts', UploadRowId(c.upload_id),
                                                c.part_number)}
                 = {[etag |-> Md5Hex(c.body), size |-> Len(c.body)]}
            /\ store'.mpu[c.upload_id].files[c.part_number] = <<c.body>>]_vars

\* the request fails validation: the upload exists and the bucket exists, and
\* the request's bucket or key is not the upload's, or a listed part has no
\* part file
FailsValidation(bucket_name, key, upload_id, numbers) ==
    /\ BucketFindByName(buckets, bucket_name) # {}
    /\ \E u \in UploadFindByUploadId(uploads, upload_id) :
          \/ u.bucket_id # TheRow(BucketFindByName(buckets, bucket_name)).id
          \/ u.object_key # key
          \/ \E i \in 1..Len(numbers) : numbers[i] \notin UploadedParts(upload_id)

\* C9: a Complete that fails validation changes nothing: the temp directory
\* and the part files, the upload and part rows, the final path and the
\* object rows are as before
C9_NoPartialCommit ==
    [][LET c == last'.req IN
         ( /\ CompletesNow
           /\ FailsValidation(c.bucket, c.key, c.upload_id, ReqNumbers(c)) )
         => UNCHANGED <<catalog, store>>]_vars

\* a Complete has failed on a listed part that was never uploaded, while the
\* upload, on the request's bucket and key, holds another part
C9_Witness ==
    /\ last.op = "CompleteMultipartUpload"
    /\ last.status # 200
    /\ UploadOpenOn(last.req.bucket, last.req.key, last.req.upload_id)
    /\ UploadedParts(last.req.upload_id) # {}
    /\ \E i \in 1..Len(last.req.parts) :
          last.req.parts[i].part_number \notin UploadedParts(last.req.upload_id)
    /\ parts # {}

\* C10: a Complete that fails validation is answered 400 InvalidRequest
C10_ValidationIsBadRequest ==
    [][LET c == last'.req IN
         ( /\ CompletesNow
           /\ FailsValidation(c.bucket, c.key, c.upload_id, ReqNumbers(c)) )
         => last'.status = 400 /\ last'.code = "InvalidRequest"]_vars

\* this step is a request of the given kind answering last'.req
StepOf(op) == last'.op = op /\ vars' # vars

\* the upload id was drawn and its upload row is gone
Finished(upload_id) ==
    upload_id < nextUploadId /\ UploadFindByUploadId(uploads, upload_id) = {}

\* C12: an upload row appears when its id is drawn and disappears only by a
\* successful Complete or Abort of that id, which also removes the temp
\* directory; from then on the id stays without a row, and every UploadPart
\* or Complete with it is answered 400 InvalidRequest and changes neither
\* the catalog nor the data and temp trees
C12_Absorbing ==
    [][/\ \A u \in UploadIds :
            /\ (nextUploadId = u /\ nextUploadId' = u + 1)
                  => UploadFindByUploadId(uploads', u) # {}
            /\ (UploadFindByUploadId(uploads, u) # {}
                  /\ UploadFindByUploadId(uploads', u) = {})
                  => /\ last'.op \in {"CompleteMultipartUpload", "AbortMultipartUpload"}
                     /\ last'.status \in {200, 204}
                     /\ last'.req.upload_id = u
            /\ Finished(u) => Finished(u)'
       /\ ( /\ StepOf("CompleteMultipartUpload") \/ StepOf("AbortMultipartUpload")
            /\ last'.status \in {200, 204} )
          => /\ UploadFindByUploadId(uploads', last'.req.upload_id) = {}
             /\ ~store'.mpu[last'.req.upload_id].present
       /\ ( /\ StepOf("UploadPart") \/ StepOf("CompleteMultipartUpload")
            /\ Finished(last'.req.upload_id) )
          => /\ last'.status = 400
             /\ last'.code = "InvalidRequest"
             /\ UNCHANGED <<catalog, store>>]_vars

\* an UploadPart with a valid part number was refused on an upload that a
\* Complete had turned into an object
C12_Witness ==
    /\ last.op = "UploadPart"
    /\ last.status = 400
    /\ last.req.part_number \in PartNumbers
    /\ Finished(last.req.upload_id)
    /\ \E o \in objects : Len(o.etag) > 1

\* C13: an Abort of an upload whose rows are already gone is not an error
\* and changes nothing
C13_AbortIdempotent ==
    [][( /\ StepOf("AbortMultipartUpload")
         /\ Finished(last'.req.upload_id) )
       => /\ last'.status = 204
          /\ UNCHANGED <<catalog, store>>]_vars

\* C14: an Abort of an open upload answers 204, removes the temp directory
\* with its part files, the part rows and the upload row, and leaves the
\* object rows and the data tree as they were
C14_AbortCleansUp ==
    [][LET u == last'.req.upload_id IN
       ( /\ StepOf("AbortMultipartUpload")
         /\ store.mpu[u].present
         /\ UploadFindByUploadId(uploads, u) # {} )
       => /\ last'.status = 204
          /\ store'.mpu[u] = NoDir
          /\ UploadFindByUploadId(uploads', u) = {}
          /\ PartListByUpload(parts', UploadRowId(u)) = {}
          /\ objects' = objects
          /\ buckets' = buckets
          /\ store'.data = store.data
          /\ store'.tmp = store.tmp]_vars

\* an Abort has succeeded while the bucket holds an object
C14_Witness ==
    /\ last.op = "AbortMultipartUpload"
    /\ last.status = 204
    /\ ~store.mpu[last.req.upload_id].present
    /\ objects # {}
    /\ store.data[object_path(BK1, KeyAB)].kind = "file"

\* C18: an UploadPart whose part number is not in 1..10000 is answered 400
\* InvalidRequest and writes no part file and no part row
C18_PartNumberRange ==
    [][( /\ StepOf("UploadPart")
         /\ last'.req.part_number \notin 1..10000 )
       => /\ last'.status = 400
          /\ last'.code = "InvalidRequest"
          /\ UNCHANGED <<catalog, store>>]_vars

\* part number 10001 was refused on an open upload
C18_Witness ==
    /\ last.op = "UploadPart"
    /\ last.status = 400
    /\ last.req.part_number = 10001
    /\ store.mpu[last.req.upload_id].present
    /\ UploadFindByUploadId(uploads, last.req.upload_id) # {}

(***************************************************************************)
(* GET and HEAD of what is not there.                                      *)
(***************************************************************************)
\* the store with the blob of (bucket_name, key) missing
WithoutBlob(bucket_name, key) ==
    [store EXCEPT !.data[object_path(bucket_name, key)] = NoNode]

\* C15: GET and HEAD change nothing; they answer 404 NoSuchBucket when the
\* bucket has no row, 404 NoSuchKey when the object has no row, whether or
\* not a blob is at its path, and 404 NoSuchKey when the object has a row
\* and the engine finds no blob at its path
C15_NotFound ==
    [][/\ (StepOf("GetObject") \/ StepOf("HeadObject"))
          => LET b == last'.req.bucket
                 k == last'.req.key
             IN  /\ UNCHANGED <<catalog, store>>
                 /\ BucketFindByName(buckets, b) = {}
                       => last'.status = 404 /\ last'.code = "NoSuchBucket"
                 /\ (BucketFindByName(buckets, b) # {} /\ RowsNow(b, k) = {})
                       => last'.status = 404 /\ last'.code = "NoSuchKey"
                 /\ ( /\ RowsNow(b, k) # {}
                      /\ store.data[object_path(b, k)].kind = "none" )
                       => last'.status = 404 /\ last'.code = "NoSuchKey"
       /\ \A k \in Keys :
             RowsNow(BK1, k) # {}
             => LET get == GetObjectResponse(buckets, objects, WithoutBlob(BK1, k),
                                             BK1, k, <<>>, 1, TRUE)
                    head == HeadObjectResponse(buckets, objects, WithoutBlob(BK1, k),
                                               BK1, k)
                IN  /\ get.status = 404 /\ get.code = "NoSuchKey"
                    /\ head.status = 404 /\ head.code = "NoSuchKey"]_vars

\* a GET was answered NoSuchKey for a key that has no row while a blob is at
\* its path
C15_Witness ==
    /\ last.op = "GetObject"
    /\ last.status = 404
    /\ last.code = "NoSuchKey"
    /\ BucketFindByName(buckets, last.req.bucket) # {}
    /\ store.data[object_path(last.req.bucket, last.req.key)].kind = "file"

(***************************************************************************)
(* Bucket names: lengths around both limits and characters in and out of   *)
(* [a-z0-9-].                                                              *)
(***************************************************************************)
Rep(c, n) == [i \in 1..n |-> c]

NameInputs ==
    {Rep("a", n) : n \in {0, 1, 2, 3, 4, 62, 63, 64, 65}}
    \cup {<<"a", "b", "-">>, <<"-", "0", "9">>, <<"z", "9", "z">>,
          <<"A", "B", "C">>, <<"a", "_", "b">>, <<"a", ".", "b">>,
          <<"a", "b", " ">>, <<"a", "B", "c", "d">>, BadName}

NextNames ==
    \E name \in NameInputs : CreateBucket(name)

SpecNames == Init /\ [][NextNames]_vars

LowerLetters ==
    {"a", "b", "c", "d", "e", "f", "g", "h", "i", "j", "k", "l", "m",
     "n", "o", "p", "q", "r", "s", "t", "u", "v", "w", "x", "y", "z"}

Digits == {"0", "1", "2", "3", "4", "5", "6", "7", "8", "9"}

\* the names the contract admits
NameIsValid(name) ==
    /\ Len(name) >= 3
    /\ Len(name) <= 63
    /\ \A i \in 1..Len(name) : name[i] \in LowerLetters \cup Digits \cup {"-"}

\* C17: CreateBucket answers 400 InvalidBucketName, creating no row, exactly
\* for the names that are not 3 to 63 characters of [a-z0-9-]; every other
\* name is accepted: 200 with a new row, or 409 when the name is taken
C17_BucketNameValidation ==
    [][StepOf("CreateBucket")
       => LET name == last'.req.bucket
          IN  IF NameIsValid(name)
              THEN IF BucketFindByName(buckets, name) = {}
                   THEN /\ last'.status = 200
                        /\ BucketFindByName(buckets', name) # {}
                   ELSE last'.status = 409
              ELSE /\ last'.status = 400
                   /\ last'.code = "InvalidBucketName"
                   /\ UNCHANGED <<catalog, store>>]_vars

\* a name of 64 characters was refused while a bucket with a name of 63
\* characters exists
C17_Witness ==
    /\ last.op = "CreateBucket"
    /\ last.status = 400
    /\ Len(last.req.bucket) = 64
    /\ \E r \in buckets : Len(r.name) = 63

(***************************************************************************)
(* Concurrent requests.  The server runs every request as a task of its    *)
(* own; a handler gives way at each .await, so between two of its catalog  *)
(* or filesystem calls the calls of other requests may run.  A request in  *)
(* flight occupies a slot of `tasks`: op and req name the handler and its  *)
(* arguments, pc the call it makes next, resp the response once pc is      *)
(* "done"; the other fields are the handler's local variables.             *)
(***************************************************************************)
Pending == Response("pending", [bucket |-> <<>>], 0, "", <<>>, -1, <<>>)

NoTasks == \A t \in TaskIds : tasks[t] = Idle

At(t, op, pc) == tasks[t].op = op /\ tasks[t].pc = pc

Done(t, op) == At(t, op, "done")

\* the handler of task t returns resp
Respond(t, resp) ==
    /\ tasks' = [tasks EXCEPT ![t] = [@ EXCEPT !.pc = "done", !.resp = resp]]
    /\ last' = resp

\* the response of task t has been sent and its slot takes the next request
Retire(t) ==
    /\ tasks[t].op # "idle"
    /\ tasks[t].pc = "done"
    /\ tasks' = [tasks EXCEPT ![t] = Idle]
    /\ UNCHANGED <<catalog, store, nextBucketId, nextUploadId, last, authVars>>

\* create_bucket: validate_bucket_name runs before the first .await
BeginCreateBucket(t, name) ==
    LET req == [bucket |-> name]
        refused == into_response("CreateBucket", req, "InvalidBucketName")
    IN  /\ tasks[t] = Idle
        /\ IF ~validate_bucket_name(name)
           THEN /\ tasks' = [tasks EXCEPT ![t] = [op |-> "CreateBucket", pc |-> "done",
                                                  req |-> req, resp |-> refused]]
                /\ last' = refused
           ELSE /\ tasks' = [tasks EXCEPT ![t] = [op |-> "CreateBucket",
                                                  pc |-> "find_by_name",
                                                  req |-> req, resp |-> Pending]]
                /\ UNCHANGED last
        /\ UNCHANGED <<catalog, store, nextBucketId, nextUploadId, authVars>>

\* create_bucket: repo.find_by_name(..).await, then repo.create(..).await
StepCreateBucket(t) ==
    LET req == tasks[t].req
        made == BucketCreate(buckets, nextBucketId, req.bucket)
    IN  /\ tasks[t].op = "CreateBucket"
        /\ \/ /\ tasks[t].pc = "find_by_name"
              /\ IF BucketFindByName(buckets, req.bucket) # {}
                 THEN Respond(t, into_response("CreateBucket", req, "BucketAlreadyExists"))
                 ELSE /\ tasks' = [tasks EXCEPT ![t].pc = "create"]
                      /\ UNCHANGED last
              /\ UNCHANGED <<catalog, store, nextBucketId, nextUploadId, authVars>>
           \/ /\ tasks[t].pc = "create"
              /\ IF ~made.ok
                 THEN /\ Respond(t, into_response("CreateBucket", req, "Internal"))
                      /\ UNCHANGED <<buckets, nextBucketId>>
                 ELSE /\ nextBucketId <= MaxBucketIds
                      /\ buckets' = made.rows
                      /\ nextBucketId' = nextBucketId + 1
                      /\ Respond(t, Success("CreateBucket", req, 200, <<>>, -1, <<>>))
              /\ UNCHANGED <<objects, uploads, parts, store, nextUploadId, authVars>>

NextBucketRace ==
    \/ \E t \in TaskIds, name \in {BK1, BK2, BadName} : BeginCreateBucket(t, name)
    \/ \E t \in TaskIds : StepCreateBucket(t)
    \/ \E t \in TaskIds : Retire(t)

SpecBucketRace == Init /\ [][NextBucketRace]_vars

\* C16: every CreateBucket request with a valid name ends with 200 or with
\* 409 BucketAlreadyExists, exactly one bucket row then carries the name,
\* and of two requests for the same name at most one ends with 200
C16_CreateBucketConflict ==
    \A t \in TaskIds :
        (Done(t, "CreateBucket") /\ NameIsValid(tasks[t].req.bucket))
        => /\ tasks[t].resp.status \in {200, 409}
           /\ tasks[t].resp.status = 409
                 => tasks[t].resp.code = "BucketAlreadyExists"
           /\ Cardinality(BucketFindByName(buckets, tasks[t].req.bucket)) = 1
           /\ \A t2 \in TaskIds \ {t} :
                 ( /\ Done(t2, "CreateBucket")
                   /\ tasks[t2].req.bucket = tasks[t].req.bucket )
                 => ~(tasks[t].resp.status = 200 /\ tasks[t2].resp.status = 200)

(***************************************************************************)
(* Open files.  A handle a task holds names the file it was opened on: the *)
(* file at `path` while that file is still linked there, and the file's    *)
(* last bytes (kept in the handle) once a rename has put another file in   *)
(* its place.  off is the handle's position.                               *)
(***************************************************************************)
NoFile == [open |-> FALSE, path |-> <<>>, detached |-> FALSE, bytes |-> <<>>, off |-> 0]

OpenFile(path) == [NoFile EXCEPT !.open = TRUE, !.path = path]

\* the bytes of the file behind handle h
FileBytes(st, h) == IF h.detached THEN h.bytes ELSE st.data[h.path].bytes

\* write(2) at offset off: bytes past the old end are new, a gap reads as 0
WriteAt(bytes, off, data) ==
    LET len == IF Len(bytes) > off + Len(data) THEN Len(bytes) ELSE off + Len(data)
    IN  [i \in 1..len |->
            IF i > off /\ i <= off + Len(data) THEN data[i - off]
            ELSE IF i <= Len(bytes) THEN bytes[i]
            ELSE 0]

\* read(2) of up to n bytes at the handle's position
ReadAt(bytes, off, n) == SubSeq(bytes, off + 1, Min(off + n, Len(bytes)))

\* the task moves on to the next call of its handler
Advance(t, rec) ==
    /\ tasks' = [tasks EXCEPT ![t] = rec]
    /\ UNCHANGED last

\* the handler of task t returns Err(kind)
Fail(t, kind) == Respond(t, into_response(tasks[t].op, tasks[t].req, kind))

\* the future of request t is dropped at an .await (the client went away,
\* or the process ended): nothing more of the handler runs
Cancel(t) ==
    /\ tasks[t].op # "idle"
    /\ tasks[t].pc # "done"
    /\ Respond(t, NoResponse(tasks[t].op, tasks[t].req))
    /\ UNCHANGED <<catalog, store, nextBucketId, nextUploadId, authVars>>

(***************************************************************************)
(* get_object without a Range header, call by call.  The response head     *)
(* (status, Content-Length from fs::metadata) is fixed when the engine      *)
(* returns; the body is what the ReaderStream then reads from the open     *)
(* file, one chunk per step.                                               *)
(***************************************************************************)
BeginGetObject(t, bucket_name, key) ==
    /\ tasks[t] = Idle
    /\ Advance(t, [op |-> "GetObject", pc |-> "find_by_name",
                   req |-> [bucket |-> bucket_name, key |-> key, range |-> <<>>],
                   resp |-> Pending, bucket |-> <<>>, content_length |-> 0,
                   file |-> NoFile, body |-> <<>>])
    /\ UNCHANGED <<catalog, store, nextBucketId, nextUploadId, authVars>>

StepGetObject(t) ==
    LET T == tasks[t]
        req == T.req
        path == object_path(req.bucket, req.key)
        found == BucketFindByName(buckets, req.bucket)
        node == store.data[path]
    IN  /\ T.op = "GetObject"
        /\ \/ /\ T.pc = "find_by_name"
              /\ IF found = {} THEN Fail(t, "BucketNotFound")
                 ELSE Advance(t, [T EXCEPT !.pc = "find_by_bucket_and_key",
                                           !.bucket = TheRow(found)])
           \/ /\ T.pc = "find_by_bucket_and_key"
              /\ IF ObjectFindByBucketAndKey(objects, T.bucket.id, req.key) = {}
                 THEN Fail(t, "ObjectNotFound")
                 ELSE Advance(t, [T EXCEPT !.pc = "exists"])
           \/ /\ T.pc = "exists"
              /\ IF node.kind = "none" THEN Fail(t, "ObjectNotFound")
                 ELSE Advance(t, [T EXCEPT !.pc = "metadata"])
           \/ /\ T.pc = "metadata"
              /\ IF node.kind = "none" THEN Fail(t, "Storage")
                 ELSE Advance(t, [T EXCEPT !.pc = "open",
                                           !.content_length = Len(node.bytes)])
           \/ /\ T.pc = "open"
              /\ IF node.kind = "none" THEN Fail(t, "Storage")
                 ELSE Advance(t, [T EXCEPT !.pc = "read", !.file = OpenFile(path)])
           \/ /\ T.pc = "read"
              /\ \E chunk \in 1..MaxChunk :
                    LET got == ReadAt(FileBytes(store, T.file), T.file.off, chunk)
                    IN  IF got = <<>>
                        THEN Respond(t, Success("GetObject", req, 200,
                                                Quote(DecStr(T.content_length)),
                                                T.content_length, T.body))
                        ELSE Advance(t, [T EXCEPT !.body = @ \o got,
                                                  !.file.off = @ + Len(got)])
        /\ UNCHANGED <<catalog, store, nextBucketId, nextUploadId, authVars>>

(***************************************************************************)
(* complete_multipart_upload (handler and engine), call by call.           *)
(***************************************************************************)
BeginCompleteMultipartUpload(t, bucket_name, key, upload_id, req_parts) ==
    /\ tasks[t] = Idle
    /\ Advance(t, [op |-> "CompleteMultipartUpload", pc |-> "find_by_upload_id",
                   req |-> [bucket |-> bucket_name, key |-> key,
                            upload_id |-> upload_id, parts |-> req_parts],
                   resp |-> Pending, upload |-> <<>>, bucket |-> <<>>,
                   sorted_parts |-> <<>>, i |-> 1, file |-> NoFile,
                   part_data |-> <<>>, etag |-> <<>>, total_size |-> 0])
    /\ UNCHANGED <<catalog, store, nextBucketId, nextUploadId, authVars>>

\* the handler's catalog calls before the engine runs
CompleteLookups(t) ==
    LET T == tasks[t]
        req == T.req
        found == UploadFindByUploadId(uploads, req.upload_id)
        bfound == BucketFindByName(buckets, req.bucket)
    IN  /\ \/ /\ T.pc = "find_by_upload_id"
              /\ IF found = {} THEN Fail(t, "BadRequest")
                 ELSE Advance(t, [T EXCEPT !.pc = "find_by_name",
                                           !.upload = TheRow(found)])
           \/ /\ T.pc = "find_by_name"
              /\ IF bfound = {} THEN Fail(t, "BucketNotFound")
                 ELSE IF \/ T.upload.bucket_id # TheRow(bfound).id
                         \/ T.upload.object_key # req.key
                 THEN Fail(t, "BadRequest")
                 ELSE Advance(t, [T EXCEPT !.pc = "exists", !.bucket = TheRow(bfound)])
        /\ UNCHANGED <<catalog, store, nextBucketId, nextUploadId, authVars>>

\* the engine up to the point where it starts to write: every path ends in
\* Err (the handler answers Storage) or at create_dir_all
CompleteChecks(t) ==
    LET T == tasks[t]
        req == T.req
        dir == store.mpu[req.upload_id]
        sorted == SortParts(ConvertParts(req.parts))
    IN  /\ \/ /\ T.pc = "exists"
              /\ IF ~dir.present THEN Fail(t, "Storage")
                 ELSE Advance(t, [T EXCEPT !.pc = "read_to_string"])
           \/ /\ T.pc = "read_to_string"
              /\ IF ~dir.present THEN Fail(t, "Storage")
                 ELSE IF dir.bucket # req.bucket \/ dir.key # req.key
                 THEN Fail(t, "Storage")
                 ELSE Advance(t, [T EXCEPT !.sorted_parts = sorted, !.i = 1,
                                           !.pc = IF sorted = <<>> THEN "create_dir_all"
                                                  ELSE "part_exists"])
           \/ /\ T.pc = "part_exists"
              /\ IF ~PartFileExists(dir, T.sorted_parts[T.i].part_number)
                 THEN Fail(t, "Storage")
                 ELSE Advance(t, [T EXCEPT !.i = IF T.i = Len(T.sorted_parts) THEN 1
                                                 ELSE T.i + 1,
                                           !.pc = IF T.i = Len(T.sorted_parts)
                                                  THEN "create_dir_all"
                                                  ELSE "part_exists"])
        /\ UNCHANGED <<catalog, store, nextBucketId, nextUploadId, authVars>>

\* the engine's writes: File::create opens the final path itself and cuts
\* the file there to length 0, then each part is read and appended
CompleteWrites(t) ==
    LET T == tasks[t]
        req == T.req
        dir == store.mpu[req.upload_id]
        final_path == object_path(req.bucket, req.key)
        d1 == create_dir_all(store.data, Parent(final_path))
        number == T.sorted_parts[T.i].part_number
        written == WriteAt(FileBytes(store, T.file), T.file.off, T.part_data)
        after == [T EXCEPT !.file.off = @ + Len(T.part_data),
                           !.file.bytes = IF T.file.detached THEN written ELSE @,
                           !.i = @ + 1,
                           !.pc = IF T.i = Len(T.sorted_parts) THEN "remove_dir_all"
                                  ELSE "read"]
    IN  /\ \/ /\ T.pc = "create_dir_all"
              /\ store' = [store EXCEPT !.data = d1.data]
              /\ IF ~d1.ok THEN Fail(t, "Storage")
                 ELSE Advance(t, [T EXCEPT !.pc = "create"])
           \/ /\ T.pc = "create"
              /\ IF store.data[final_path].kind = "dir"
                 THEN Fail(t, "Storage") /\ UNCHANGED store
                 ELSE /\ store' = [store EXCEPT !.data[final_path] = FileNode(<<>>)]
                      /\ Advance(t, [T EXCEPT !.file = OpenFile(final_path),
                                              !.pc = IF T.sorted_parts = <<>>
                                                     THEN "remove_dir_all" ELSE "read"])
           \/ /\ T.pc = "read"
              /\ IF ~PartFileExists(dir, number)
                 THEN Fail(t, "Storage")
                 ELSE Advance(t, [T EXCEPT !.part_data = dir.files[number][1],
                                           !.pc = "write_all"])
              /\ UNCHANGED store
           \/ /\ T.pc = "write_all"
              /\ store' = IF T.file.detached THEN store
                          ELSE [store EXCEPT !.data[final_path] = FileNode(written)]
              /\ Advance(t, after)
           \/ /\ T.pc = "remove_dir_all"
              /\ IF ~dir.present
                 THEN Fail(t, "Storage") /\ UNCHANGED store
                 ELSE /\ store' = [store EXCEPT !.mpu[req.upload_id] = NoDir]
                      /\ Advance(t, [T EXCEPT !.etag = CompositeETag(T.sorted_parts),
                                              !.pc = "list_by_upload"])
        /\ UNCHANGED <<catalog, nextBucketId, nextUploadId, authVars>>

\* a handler that deletes the upload's rows before it inserts the object
CompleteCommit_cleanupFirst(t) ==
    LET T == tasks[t]
        req == T.req
        made == ObjectCreate(buckets, objects, T.bucket.id, req.key, T.etag,
                             T.total_size)
        cleaned == UploadDelete(uploads, parts, req.upload_id)
    IN  /\ \/ /\ T.pc = "list_by_upload"
              /\ Advance(t, [T EXCEPT !.pc = "delete_by_upload",
                                      !.total_size =
                                          SumSizes(PartListByUpload(parts, T.upload.id))])
              /\ UNCHANGED catalog
           \/ /\ T.pc = "delete_by_upload"
              /\ parts' = PartDeleteByUpload(parts, T.upload.id)
              /\ Advance(t, [T EXCEPT !.pc = "delete"])
              /\ UNCHANGED <<buckets, objects, uploads>>
           \/ /\ T.pc = "delete"
              /\ uploads' = cleaned.uploads
              /\ parts' = cleaned.parts
              /\ Advance(t, [T EXCEPT !.pc = "create_object"])
              /\ UNCHANGED <<buckets, objects>>
           \/ /\ T.pc = "create_object"
              /\ IF ~made.ok THEN Fail(t, "Internal") /\ UNCHANGED objects
                 ELSE /\ objects' = made.rows
                      /\ Respond(t, Success("CompleteMultipartUpload", req, 200,
                                            Quote(T.etag), -1, <<>>))
              /\ UNCHANGED <<buckets, uploads, parts>>
        /\ UNCHANGED <<store, nextBucketId, nextUploadId, authVars>>

\* the handler's catalog calls after the engine has returned Ok(etag)
CompleteCommit(t) ==
    LET T == tasks[t]
        req == T.req
        made == ObjectCreate(buckets, objects, T.bucket.id, req.key, T.etag,
                             T.total_size)
        cleaned == UploadDelete(uploads, parts, req.upload_id)
    IN  /\ \/ /\ T.pc = "list_by_upload"
              /\ Advance(t, [T EXCEPT !.pc = "create_object",
                                      !.total_size =
                                          SumSizes(PartListByUpload(parts, T.upload.id))])
              /\ UNCHANGED catalog
           \/ /\ T.pc = "create_object"
              /\ IF ~made.ok THEN Fail(t, "Internal") /\ UNCHANGED objects
                 ELSE objects' = made.rows /\ Advance(t, [T EXCEPT !.pc = "delete_by_upload"])
              /\ UNCHANGED <<buckets, uploads, parts>>
           \/ /\ T.pc = "delete_by_upload"
              /\ parts' = PartDeleteByUpload(parts, T.upload.id)
              /\ Advance(t, [T EXCEPT !.pc = "delete"])
              /\ UNCHANGED <<buckets, objects, uploads>>
           \/ /\ T.pc = "delete"
              /\ uploads' = cleaned.uploads
              /\ parts' = cleaned.parts
              /\ Respond(t, Success("CompleteMultipartUpload", req, 200,
                                    Quote(T.etag), -1, <<>>))
              /\ UNCHANGED <<buckets, objects>>
        /\ UNCHANGED <<store, nextBucketId, nextUploadId, authVars>>

StepCompleteMultipartUpload(t) ==
    /\ tasks[t].op = "CompleteMultipartUpload"
    /\ \/ CompleteLookups(t)
       \/ CompleteChecks(t)
       \/ CompleteWrites(t)
       \/ CompleteCommit(t)

(***************************************************************************)
(* CompleteMultipartUpload against itself and against GET: one bucket, one *)
(* key, one upload with a one-byte part under each part number; the        *)
(* object, the upload and its parts are set up before the first            *)
(* concurrent request arrives.                                             *)
(***************************************************************************)
OldBlob == Iota(MaxLen)

PartBody(n) == IF n = 2 THEN <<MaxLen + 1>> ELSE <<MaxLen + 2>>

Assembled == PartBody(2) \o PartBody(10)

NextCompleteRace ==
    \/ NoTasks /\ CreateBucket(BK1)
    \/ NoTasks /\ PutObject(BK1, KeyA, OldBlob)
    \/ NoTasks /\ CreateMultipartUpload(BK1, KeyA)
    \/ NoTasks /\ \E n \in PartNumbers : UploadPart(BK1, KeyA, 1, n, PartBody(n))
    \/ \E t \in TaskIds :
          BeginCompleteMultipartUpload(t, BK1, KeyA, 1, ClientParts(1, <<2, 10>>))
    \/ \E t \in TaskIds : StepCompleteMultipartUpload(t)
    \/ \E t \in TaskIds : BeginGetObject(t, BK1, KeyA)
    \/ \E t \in TaskIds : StepGetObject(t)
    \/ \E t \in TaskIds : Cancel(t)

SpecCompleteRace == Init /\ [][NextCompleteRace]_vars

\* C11: of two answered CompleteMultipartUpload requests with the same
\* uploadId, when one has got 200 (with an ETag) the other has got 400
C11_OneCompleteWins ==
    \A t1 \in TaskIds : \A t2 \in TaskIds \ {t1} :
        ( /\ Done(t1, "CompleteMultipartUpload")
          /\ Done(t2, "CompleteMultipartUpload")
          /\ tasks[t1].req.upload_id = tasks[t2].req.upload_id
          /\ tasks[t1].resp.status = 200
          /\ tasks[t2].resp.status # 0 )
        => /\ tasks[t1].resp.etag # <<>>
           /\ tasks[t2].resp.status = 400

\* C20: a GET of a key that PutObject has stored, answered 200 while
\* CompleteMultipartUpload requests on the key run or after one was cut
\* short, carries the whole old object or the whole assembled object
C20_AtomicCommit ==
    \A t \in TaskIds :
        ( /\ Done(t, "GetObject")
          /\ tasks[t].resp.status = 200
          /\ \E o \in objects : o.key = KeyA /\ o.etag = Md5Hex(OldBlob) )
        => tasks[t].resp.body \in {OldBlob, Assembled}

(***************************************************************************)
(* put_object (handler and engine), call by call.  The task's temp file    *)
(* tmp_<uuid> has a name no other task knows; its bytes are the task's     *)
(* `temp`, and store.tmp counts it from File::create to the rename.        *)
(***************************************************************************)
BeginPutObject(t, bucket_name, key, body) ==
    /\ tasks[t] = Idle
    /\ Advance(t, [op |-> "PutObject", pc |-> "find_by_name",
                   req |-> [bucket |-> bucket_name, key |-> key, body |-> body],
                   resp |-> Pending, bucket |-> <<>>, temp |-> <<>>, etag |-> <<>>])
    /\ UNCHANGED <<catalog, store, nextBucketId, nextUploadId, authVars>>

\* a write that lands in the file at the object's path instead
temp_write_all_in_place(st, T, piece) ==
    LET path == object_path(T.req.bucket, T.req.key)
    IN  [st |-> [st EXCEPT !.data[path] =
                     FileNode(WriteAt(st.data[path].bytes, Len(T.temp), piece))],
         T |-> [T EXCEPT !.temp = @ \o piece]]

\* temp_file.write_all: the bytes go to the end of the task's temp file
temp_write_all(st, T, piece) ==
    [st |-> st, T |-> [T EXCEPT !.temp = @ \o piece]]

\* a handle open on the file that a rename has just replaced at `path`
\* keeps that file, with the bytes it had
Detach(T, path, bytes) ==
    IF /\ "file" \in DOMAIN T
       /\ T.file.open
       /\ T.file.path = path
       /\ ~T.file.detached
    THEN [T EXCEPT !.file.detached = TRUE, !.file.bytes = bytes]
    ELSE T

StepPutObject(t) ==
    LET T == tasks[t]
        req == T.req
        path == object_path(req.bucket, req.key)
        found == BucketFindByName(buckets, req.bucket)
        d1 == ensure_bucket_dir(store.data, req.bucket)
        d2 == create_dir_all(store.data, Parent(path))
        made == ObjectCreate(buckets, objects, T.bucket.id, req.key, T.etag,
                             Len(req.body))
    IN  /\ T.op = "PutObject"
        /\ \/ /\ T.pc = "find_by_name"
              /\ IF found = {} THEN Fail(t, "BucketNotFound")
                 ELSE Advance(t, [T EXCEPT !.pc = "ensure_bucket_dir",
                                           !.bucket = TheRow(found)])
              /\ UNCHANGED <<catalog, store>>
           \/ /\ T.pc = "ensure_bucket_dir"
              /\ store' = [store EXCEPT !.data = d1.data]
              /\ IF ~d1.ok THEN Fail(t, "Storage")
                 ELSE Advance(t, [T EXCEPT !.pc = "create_dir_all"])
              /\ UNCHANGED catalog
           \/ /\ T.pc = "create_dir_all"
              /\ store' = [store EXCEPT !.data = d2.data]
              /\ IF ~d2.ok THEN Fail(t, "Storage")
                 ELSE Advance(t, [T EXCEPT !.pc = "create"])
              /\ UNCHANGED catalog
           \/ /\ T.pc = "create"
              /\ store' = [store EXCEPT !.tmp = @ + 1]
              /\ Advance(t, [T EXCEPT !.temp = <<>>,
                                      !.pc = IF req.body = <<>> THEN "rename"
                                             ELSE "write_all"])
              /\ UNCHANGED catalog
           \/ /\ T.pc = "write_all"
              /\ \E n \in 1..MaxChunk :
                    LET piece == ReadAt(req.body, Len(T.temp), n)
                        w == temp_write_all(store, T, piece)
                    IN  /\ store' = w.st
                        /\ Advance(t, [w.T EXCEPT !.pc = IF w.T.temp = req.body
                                                         THEN "rename"
                                                         ELSE "write_all"])
              /\ UNCHANGED catalog
           \/ /\ T.pc = "rename"
              /\ IF store.data[path].kind = "dir"
                 THEN Fail(t, "Storage") /\ UNCHANGED store
                 ELSE /\ store' = [store EXCEPT !.data[path] = FileNode(T.temp),
                                                !.tmp = @ - 1]
                      /\ tasks' = [u \in TaskIds |->
                                      IF u = t
                                      THEN [T EXCEPT !.pc = "create_object",
                                                     !.etag = Md5Hex(req.body)]
                                      ELSE Detach(tasks[u], path, store.data[path].bytes)]
                      /\ UNCHANGED last
              /\ UNCHANGED catalog
           \/ /\ T.pc = "create_object"
              /\ IF ~made.ok THEN Fail(t, "Internal") /\ UNCHANGED objects
                 ELSE /\ objects' = made.rows
                      /\ Respond(t, Success("PutObject", req, 200, Quote(T.etag),
                                            -1, <<>>))
              /\ UNCHANGED <<buckets, uploads, parts, store>>
        /\ UNCHANGED <<nextBucketId, nextUploadId, authVars>>

(***************************************************************************)
(* PUT against GET on one key: the key holds OldBlob or nothing when the   *)
(* first concurrent request arrives, and every PUT carries NewBlob.        *)
(***************************************************************************)
NewBlob == [i \in 1..MaxLen |-> MaxLen + i]

NextPutRace ==
    \/ NoTasks /\ CreateBucket(BK1)
    \/ NoTasks /\ PutObject(BK1, KeyA, OldBlob)
    \/ \E t \in TaskIds : BeginPutObject(t, BK1, KeyA, NewBlob)
    \/ \E t \in TaskIds : StepPutObject(t)
    \/ \E t \in TaskIds : BeginGetObject(t, BK1, KeyA)
    \/ \E t \in TaskIds : StepGetObject(t)
    \/ \E t \in TaskIds : Cancel(t)

SpecPutRace == Init /\ [][NextPutRace]_vars

TargetNode == store.data[object_path(BK1, KeyA)]

\* the step is the rename of some PUT
RenameStep ==
    \E t \in TaskIds : /\ At(t, "PutObject", "rename")
                       /\ tasks'[t].pc = "create_object"

\* C19: while PUTs of NewBlob run, are cut short or have ended, the file at
\* the target path changes only in the rename of a PUT, which puts all of
\* NewBlob there (so a PUT that stops before its rename leaves the path as
\* it was); every GET answered 200 has read all of OldBlob or all of
\* NewBlob through its handle, and a GET with no object there answers 404
C19_NoTornReads ==
    [][ /\ (TargetNode' # TargetNode /\ ~NoTasks)
            => (RenameStep /\ TargetNode' = FileNode(NewBlob))
        /\ \A t \in TaskIds :
              Done(t, "GetObject")'
              => \/ /\ tasks'[t].resp.status = 200
                    /\ tasks'[t].resp.body \in {OldBlob, NewBlob}
                 \/ tasks'[t].resp.status \in {0, 404}
      ]_vars

\* a GET that opened the old file, had a PUT's rename replace it under its
\* handle and still read all of OldBlob
C19_Witness ==
    \E t \in TaskIds : \E u \in TaskIds :
        /\ Done(t, "GetObject")
        /\ tasks[t].resp.status = 200
        /\ tasks[t].file.detached
        /\ tasks[t].resp.body = OldBlob
        /\ tasks[u].op = "PutObject"
        /\ TargetNode = FileNode(NewBlob)

(***************************************************************************)
(* Two keys of one bucket.                                                 *)
(***************************************************************************)
\* the status put_object (the handler) answers in a given catalog and store
PutObjectStatus(bkts, objs, st, bucket_name, key, body) ==
    LET found == BucketFindByName(bkts, bucket_name)
        put == put_object(st, bucket_name, key, body)
        made == ObjectCreate(bkts, objs, TheRow(found).id, key, put.etag, Len(body))
    IN  IF found = {} THEN ErrorStatus("BucketNotFound")
        ELSE IF ~put.ok THEN ErrorStatus("Storage")
        ELSE IF ~made.ok THEN ErrorStatus("Internal")
        ELSE 200

\* the status delete_object (the handler) answers in a given catalog and store
DeleteObjectStatus(bkts, st, bucket_name, key) ==
    IF BucketFindByName(bkts, bucket_name) = {} THEN ErrorStatus("BucketNotFound")
    ELSE IF ~delete_object(st, bucket_name, key).ok THEN ErrorStatus("Storage")
    ELSE 204

IsProperPrefix(p, q) == Len(p) < Len(q) /\ p = SubSeq(q, 1, Len(p))

\* the store as it would be had key k2 never been written, seen from key
\* k1: no blob at the path of k2 and none of the directories that only the
\* path of k2 needs
StoreWithoutKey(st, bucket_name, k2, k1) ==
    LET p2 == object_path(bucket_name, k2)
        p1 == object_path(bucket_name, k1)
    IN  [st EXCEPT !.data =
            [p \in Paths |->
                IF p \in Prefixes(p2) /\ Len(p) > 1
                   /\ \/ st.data[p].kind = "file" /\ p = p2
                      \/ st.data[p].kind = "dir" /\ ~IsProperPrefix(p, p1)
                THEN NoNode
                ELSE st.data[p]]]

RowsWithoutKey(objs, k2) == {o \in objs : o.key # k2}

\* C21: a PUT or DELETE on key k1 is answered as it would be with key k2
\* (any other key of the bucket) never written, and leaves the catalog row
\* and the blob of k2 as they were
C21_KeysIndependent ==
    [][\A k2 \in Keys :
        LET req == last'.req
            st2 == StoreWithoutKey(store, req.bucket, k2, req.key)
        IN  ( /\ StepOf("PutObject") \/ StepOf("DeleteObject")
              /\ req.key # k2 )
            => /\ last'.status =
                     IF last'.op = "PutObject"
                     THEN PutObjectStatus(buckets, RowsWithoutKey(objects, k2), st2,
                                          req.bucket, req.key, req.body)
                     ELSE DeleteObjectStatus(buckets, st2, req.bucket, req.key)
               /\ {o \in objects' : o.key = k2} = {o \in objects : o.key = k2}
               /\ store.data[object_path(req.bucket, k2)].kind = "file"
                     => store'.data[object_path(req.bucket, k2)]
                            = store.data[object_path(req.bucket, k2)]
      ]_vars

(***************************************************************************)
(* The request body of a PUT.  A body arrives as a stream of chunks that   *)
(* ends well or breaks off: `failed` says that after the chunks listed the *)
(* stream yields an error (the transport reports a body that ends before   *)
(* its declared length as such an error).                                  *)
(***************************************************************************)
Chunkings ==
    {<<>>} \cup {<<p>> : p \in PartBodies}
           \cup {<<SubSeq(p, 1, n), SubSeq(p, n + 1, Len(p))>> :
                    p \in PartBodies, n \in 1..(MaxLen - 1)}

BodyStreams == [chunks : Chunkings, failed : BOOLEAN]

\* a collector that hands on the chunks it has got when the stream breaks
to_bytes_lossy(stream) == [ok |-> TRUE, bytes |-> Flatten(stream.chunks)]

\* axum::body::to_bytes(body, usize::MAX): all chunks, or the stream's error
to_bytes(stream) ==
    IF stream.failed THEN [ok |-> FALSE, bytes |-> <<>>]
    ELSE [ok |-> TRUE, bytes |-> Flatten(stream.chunks)]

\* put_object_or_part without the uploadId and partNumber query parameters
PutObjectOrPart(bucket_name, key, stream) ==
    LET bytes == to_bytes(stream)
        req == [bucket |-> bucket_name, key |-> key, body |-> <<>>]
    IN  IF ~bytes.ok
        THEN /\ last' = into_response("PutObject", req, "BadRequest")
             /\ UNCHANGED <<catalog, store, nextBucketId, nextUploadId, tasks, authVars>>
        ELSE PutObject(bucket_name, key, bytes.bytes)

\* the engine's put_object given a stream of its own: the loop over
\* try_next leaves by `?` at the stream's error, after File::create of the
\* temp file and before the rename
put_object_streamed(st, bucket, key, stream) ==
    LET path == object_path(bucket, key)
        d1 == ensure_bucket_dir(st.data, bucket)
        d2 == create_dir_all(d1.data, Parent(path))
    IN  IF ~stream.failed THEN put_object(st, bucket, key, Flatten(stream.chunks))
        ELSE IF ~d1.ok THEN EngineErr([st EXCEPT !.data = d1.data])
        ELSE IF ~d2.ok THEN EngineErr([st EXCEPT !.data = d2.data])
        ELSE EngineErr([st EXCEPT !.data = d2.data, !.tmp = st.tmp + 1])

NextBody ==
    \/ CreateBucket(BK1)
    \/ \E k \in Keys, stream \in BodyStreams : PutObjectOrPart(BK1, k, stream)
    \/ DeleteObject(BK1, KeyA)

SpecBody == Init /\ [][NextBody]_vars

\* C22: a PUT whose body stream breaks off fails (400 InvalidRequest) and
\* changes neither the catalog nor the storage; and the engine, given such
\* a stream, returns an error with the node at the target path as it was
C22_BrokenBody ==
    [][\A k \in Keys, stream \in BodyStreams :
        (PutObjectOrPart(BK1, k, stream) /\ stream.failed)
        => /\ last'.status = 400
           /\ last'.code = "InvalidRequest"
           /\ UNCHANGED <<catalog, store>>
           /\ ~put_object_streamed(store, BK1, k, stream).ok
           /\ put_object_streamed(store, BK1, k, stream).st.data[object_path(BK1, k)]
                 = store.data[object_path(BK1, k)]
      ]_vars

\* a PUT of a broken body has just been refused on a key that holds an
\* object with a non-empty blob
C22_Witness ==
    /\ last.op = "PutObject"
    /\ last.status = 400
    /\ ObjectStored(BK1, last.req.key)
    /\ BlobNow(BK1, last.req.key) # <<>>

(***************************************************************************)
(* Object listing (ObjectRepository::list_by_bucket, list_objects).        *)
(* A u32 is the pair of its top bit and its low 31 bits.                   *)
(***************************************************************************)
I32Max == 2147483647

U32(high, low) == [high |-> high, low |-> low]

U32Less(a, b) == (~a.high /\ b.high) \/ (a.high = b.high /\ a.low < b.low)

\* `k as i32`: the same 32 bits read as a signed number
AsI32(k) == IF k.high THEN (k.low - I32Max) - 1 ELSE k.low

\* the byte of each character the keys and prefixes of the model use
CharCode(c) ==
    CASE c = "%" -> 37
      [] c = "/" -> 47
      [] c = "A" -> 65
      [] c = "B" -> 66
      [] c = "_" -> 95
      [] c = "a" -> 97
      [] c = "b" -> 98

ToAsciiLower(c) ==
    CASE c = "A" -> "a"
      [] c = "B" -> "b"
      [] OTHER -> c

\* SQLite's LIKE: % matches any run of characters, _ any one character,
\* and ASCII letters match in either case
RECURSIVE LikeMatch(_, _)
LikeMatch(pattern, text) ==
    IF pattern = <<>> THEN text = <<>>
    ELSE IF Head(pattern) = "%"
    THEN \E n \in 0..Len(text) :
            LikeMatch(Tail(pattern), SubSeq(text, n + 1, Len(text)))
    ELSE IF text = <<>> THEN FALSE
    ELSE IF Head(pattern) = "_" THEN LikeMatch(Tail(pattern), Tail(text))
    ELSE /\ ToAsciiLower(Head(pattern)) = ToAsciiLower(Head(text))
         /\ LikeMatch(Tail(pattern), Tail(text))

\* ORDER BY key under the BINARY collation: byte by byte
RECURSIVE KeyLess(_, _)
KeyLess(k1, k2) ==
    IF k2 = <<>> THEN FALSE
    ELSE IF k1 = <<>> THEN TRUE
    ELSE IF CharCode(Head(k1)) # CharCode(Head(k2))
    THEN CharCode(Head(k1)) < CharCode(Head(k2))
    ELSE KeyLess(Tail(k1), Tail(k2))

RECURSIVE OrderByKey(_)
OrderByKey(rows) ==
    IF rows = {} THEN <<>>
    ELSE LET first == CHOOSE r \in rows : \A q \in rows \ {r} : KeyLess(r.key, q.key)
         IN  <<first>> \o OrderByKey(rows \ {first})

\* LIMIT n: a negative n is no limit
SqlLimit(rows, n) == IF n < 0 THEN rows ELSE SubSeq(rows, 1, Min(n, Len(rows)))

\* Option values are <<>> (None) and <<x>> (Some(x))
list_by_bucket(objs, bucket_id, prefix, limit) ==
    LET n == Min(IF limit = <<>> THEN 1000 ELSE limit[1], 1000)
        rows == {o \in objs :
                    /\ o.bucket_id = bucket_id
                    /\ prefix # <<>> => LikeMatch(prefix[1] \o <<"%">>, o.key)}
    IN  SqlLimit(OrderByKey(rows), n)

\* list_objects: the response body is the list of ObjectInfo
ListObjects(bucket_name, prefix, max_keys) ==
    LET req == [bucket |-> bucket_name, prefix |-> prefix, max_keys |-> max_keys]
        found == BucketFindByName(buckets, bucket_name)
        rows == list_by_bucket(objects, TheRow(found).id, prefix,
                               IF max_keys = <<>> THEN <<>> ELSE <<AsI32(max_keys[1])>>)
        infos == [i \in 1..Len(rows) |->
                     [key |-> rows[i].key, etag |-> rows[i].etag, size |-> rows[i].size]]
    IN  /\ last' = IF found = {} THEN into_response("ListObjects", req, "BucketNotFound")
                   ELSE Success("ListObjects", req, 200, <<>>, -1, infos)
        /\ UNCHANGED <<catalog, store, nextBucketId, nextUploadId, tasks, authVars>>

ListPrefixes ==
    {<<>>, <<<<>>>>, <<<<"a">>>>, <<<<"a", "b">>>>, <<<<"b">>>>, <<<<"A">>>>,
     <<<<"_">>>>, <<<<"%", "b">>>>}

ListMaxKeys ==
    {<<>>, <<U32(FALSE, 0)>>, <<U32(FALSE, 1)>>, <<U32(FALSE, 1001)>>,
     <<U32(TRUE, I32Max)>>}

NextList ==
    \/ \E name \in BucketNames : CreateBucket(name)
    \/ \E k \in Keys : PutObject(BK1, k, <<>>)
    \/ PutObject(BK2, KeyA, <<>>)
    \/ \E prefix \in ListPrefixes, max_keys \in ListMaxKeys :
          ListObjects(BK1, prefix, max_keys)

SpecList == Init /\ [][NextList]_vars

\* key starts with prefix, byte for byte
StartsWith(key, prefix) ==
    Len(prefix) <= Len(key) /\ SubSeq(key, 1, Len(prefix)) = prefix

\* the largest number of rows a listing with this max-keys may return
ListCap(max_keys) ==
    IF max_keys = <<>> \/ U32Less(U32(FALSE, 1000), max_keys[1]) THEN 1000
    ELSE max_keys[1].low

\* C23: a listing answered 200 holds only objects of the bucket whose key
\* starts with the prefix byte for byte, each at most once, in ascending
\* key order, at most min(max-keys, 1000) of them, and all of them when
\* they are no more than that
C23_Listing ==
    (last.op = "ListObjects" /\ last.status = 200) =>
        LET req == last.req
            id == TheRow(BucketFindByName(buckets, req.bucket)).id
            want == {o.key : o \in {x \in objects :
                        /\ x.bucket_id = id
                        /\ req.prefix # <<>> => StartsWith(x.key, req.prefix[1])}}
            got == last.body
        IN  /\ \A i \in 1..Len(got) : got[i].key \in want
            /\ \A i \in 1..Len(got) : \A j \in 1..Len(got) :
                  i < j => KeyLess(got[i].key, got[j].key)
            /\ Len(got) <= ListCap(req.max_keys)
            /\ Len(got) = Min(Cardinality(want), ListCap(req.max_keys))


(***************************************************************************)
(* The access keys (crates/auth/src/keys.rs).                              *)
(*                                                                         *)
(* The table keeps created_at and expires_at as RFC 3339 texts.  The       *)
(* repository is driven by the key commands of the command line tool,     *)
(* which run one at a time.                                                *)
(***************************************************************************)
MaxKeys == 2

MaxClock == 1

\* a day that puts an expiration beyond the year 9999
FarDays == 3000000

KeyUuids == 1..MaxKeys

AccessKeyIds == {"AKIA1", "AKIA2"}

Secrets == {"secret1", "secret2"}

PolicyLists == {<<>>, <<"admin">>}

\* --expires-days of the create command
ExpiresDays == {0, 1, FarDays}

InstantLess(a, b) == a.year < b.year \/ (a.year = b.year /\ a.sec < b.sec)

\* t + Duration::days(days), on a calendar of 365-day years
PlusDays(t, days) == Instant(t.year + (days \div 365), t.sec + (days % 365) * 86400)

RECURSIVE Number(_)
Number(digits) ==
    IF digits = <<>> THEN 0
    ELSE 10 * Number(SubSeq(digits, 1, Len(digits) - 1)) + (digits[Len(digits)] - 48)

\* the instant an RFC 3339 text denotes
InstantOf(text) ==
    IF text[1] = 43 THEN Instant(Number(SubSeq(text, 2, 6)), Number(SubSeq(text, 8, 15)))
    ELSE Instant(Number(SubSeq(text, 1, 4)), Number(SubSeq(text, 6, 13)))

\* DateTime::parse_from_rfc3339.  Whether a year written with a sign is
\* accepted depends on the version of the date library the build links, so
\* both outcomes are possible for such a text.
parse_from_rfc3339(text) ==
    IF text[1] = 43 THEN {[ok |-> FALSE], [ok |-> TRUE, value |-> InstantOf(text)]}
    ELSE {[ok |-> TRUE, value |-> InstantOf(text)]}

\* SQLite compares TEXT values byte by byte; a proper prefix is smaller
RECURSIVE TextLess(_, _)
TextLess(a, b) ==
    IF b = <<>> THEN FALSE
    ELSE IF a = <<>> THEN TRUE
    ELSE IF a[1] # b[1] THEN a[1] < b[1]
    ELSE TextLess(Tail(a), Tail(b))

KeyResult(op, req, ok, value) == [op |-> op, req |-> req, ok |-> ok, value |-> value]

\* AccessKeyRepository::create
CreateAccessKey(id, access_key_id, secret, policies, expires_at) ==
    LET row == [id |-> id, access_key_id |-> access_key_id,
                secret_access_key |-> secret, created_at |-> to_rfc3339(now),
                expires_at |-> IF expires_at = None THEN None
                               ELSE Some(to_rfc3339(expires_at[1])),
                is_active |-> TRUE, policies |-> policies]
        req == [access_key_id |-> access_key_id, expires_at |-> expires_at]
        \* id is the primary key, access_key_id is UNIQUE
        clash == \E r \in access_keys : r.id = id \/ r.access_key_id = access_key_id
    IN  /\ Cardinality(access_keys) < MaxKeys
        /\ IF clash
           THEN /\ last' = KeyResult("create", req, FALSE, None)
                /\ UNCHANGED access_keys
           ELSE /\ access_keys' = access_keys \cup {row}
                /\ last' = KeyResult("create", req, TRUE, Some(row))
        /\ UNCHANGED <<catalog, store, nextBucketId, nextUploadId, tasks, now>>

\* a query without the is_active condition
find_any_by_access_key_id(keys, access_key_id) ==
    LET rows == {r \in keys : r.access_key_id = access_key_id}
    IN  IF rows = {} THEN {[ok |-> TRUE, value |-> None]}
        ELSE {[ok |-> TRUE, value |-> Some(CHOOSE r \in rows : TRUE)]}

\* AccessKeyRepository::find_by_access_key_id: the outcomes of the query and
\* of decoding the row found
find_by_access_key_id(keys, access_key_id) ==
    LET rows == {r \in keys : r.access_key_id = access_key_id /\ r.is_active}
    IN  IF rows = {} THEN {[ok |-> TRUE, value |-> None]}
        ELSE LET row == CHOOSE r \in rows : TRUE
             IN  IF row.expires_at = None THEN {[ok |-> TRUE, value |-> Some(row)]}
                 ELSE {IF p.ok THEN [ok |-> TRUE, value |-> Some(row)]
                                ELSE [ok |-> FALSE, value |-> None] :
                       p \in parse_from_rfc3339(row.expires_at[1])}

\* AccessKeyRepository::deactivate
deactivate(keys, access_key_id) ==
    {IF r.access_key_id = access_key_id THEN [r EXCEPT !.is_active = FALSE] ELSE r :
     r \in keys}

Deactivate(access_key_id) ==
    /\ access_keys' = deactivate(access_keys, access_key_id)
    /\ last' = KeyResult("deactivate", [access_key_id |-> access_key_id], TRUE,
                         \E r \in access_keys : r.access_key_id = access_key_id)
    /\ UNCHANGED <<catalog, store, nextBucketId, nextUploadId, tasks, now>>

\* AccessKeyRepository::delete
DeleteAccessKey(access_key_id) ==
    /\ access_keys' = {r \in access_keys : r.access_key_id # access_key_id}
    /\ last' = KeyResult("delete", [access_key_id |-> access_key_id], TRUE,
                         \E r \in access_keys : r.access_key_id = access_key_id)
    /\ UNCHANGED <<catalog, store, nextBucketId, nextUploadId, tasks, now>>

\* AccessKeyRepository::rotate; new_secret is what
\* generate_secret_access_key returns
Rotate(access_key_id, new_secret) ==
    LET req == [access_key_id |-> access_key_id, new_secret |-> new_secret]
    IN  /\ \E found \in find_by_access_key_id(access_keys, access_key_id) :
              IF ~found.ok
              THEN /\ last' = KeyResult("rotate", req, FALSE, None)
                   /\ UNCHANGED access_keys
              ELSE IF found.value = None
              THEN /\ last' = KeyResult("rotate", req, TRUE, None)
                   /\ UNCHANGED access_keys
              ELSE /\ access_keys' =
                         {IF r.access_key_id = access_key_id
                          THEN [r EXCEPT !.secret_access_key = new_secret,
                                         !.created_at = to_rfc3339(now)]
                          ELSE r : r \in access_keys}
                   /\ last' = KeyResult("rotate", req, TRUE,
                                 Some([found.value[1] EXCEPT
                                          !.secret_access_key = new_secret,
                                          !.created_at = to_rfc3339(now)]))
        /\ UNCHANGED <<catalog, store, nextBucketId, nextUploadId, tasks, now>>

\* AccessKeyRepository::cleanup_expired: the UPDATE compares the stored text
\* with the text of now
cleanup_expired(keys, at) ==
    {IF r.expires_at # None /\ TextLess(r.expires_at[1], to_rfc3339(at))
     THEN [r EXCEPT !.is_active = FALSE] ELSE r : r \in keys}

CleanupExpired ==
    /\ access_keys' = cleanup_expired(access_keys, now)
    /\ last' = KeyResult("cleanup_expired", [at |-> now], TRUE,
                         Cardinality({r \in access_keys : r.expires_at # None
                                        /\ TextLess(r.expires_at[1], to_rfc3339(now))}))
    /\ UNCHANGED <<catalog, store, nextBucketId, nextUploadId, tasks, now>>

\* time passes
Tick ==
    /\ now.sec < StartSec + MaxClock
    /\ now' = Instant(now.year, now.sec + 1)
    /\ UNCHANGED <<catalog, store, nextBucketId, nextUploadId, tasks, last, access_keys>>

NextKeys ==
    \/ \E id \in KeyUuids, k \in AccessKeyIds, s \in Secrets, p \in PolicyLists :
          \/ CreateAccessKey(id, k, s, p, None)
          \/ \E days \in ExpiresDays : CreateAccessKey(id, k, s, p, Some(PlusDays(now, days)))
    \/ \E k \in AccessKeyIds : Deactivate(k)
    \/ \E k \in AccessKeyIds : DeleteAccessKey(k)
    \/ \E k \in AccessKeyIds, s \in Secrets : Rotate(k, s)
    \/ CleanupExpired
    \/ Tick

SpecKeys == Init /\ [][NextKeys]_vars


\* the key of a row with an expiration is expired at an instant when its
\* expiration is earlier
Expired(r, at) == r.expires_at # None /\ InstantLess(InstantOf(r.expires_at[1]), at)

\* what rotate may change of a row
SameButSecret(r, q) ==
    /\ q.id = r.id
    /\ q.access_key_id = r.access_key_id
    /\ q.is_active = r.is_active
    /\ q.expires_at = r.expires_at
    /\ q.policies = r.policies

C29_Rotate ==
    StepOf("rotate") /\ last'.ok =>
        LET k == last'.req.access_key_id
            mine == {r \in access_keys : r.access_key_id = k}
        IN  /\ {r \in access_keys' : r.access_key_id # k} = access_keys \ mine
            /\ \A r \in mine :
                  \E q \in access_keys' :
                     /\ SameButSecret(r, q)
                     /\ q.secret_access_key = last'.req.new_secret
            /\ Cardinality(access_keys') = Cardinality(access_keys)

C29_Deactivate ==
    StepOf("deactivate") =>
        access_keys' = {IF r.access_key_id = last'.req.access_key_id
                        THEN [r EXCEPT !.is_active = FALSE] ELSE r : r \in access_keys}

C29_Cleanup ==
    StepOf("cleanup_expired") =>
        access_keys' = {IF Expired(r, now) THEN [r EXCEPT !.is_active = FALSE] ELSE r :
                        r \in access_keys}

\* C29: rotate on an existing key stores the generated secret and keeps the
\* identifier, the active flag, the expiration and the policies of the key;
\* deactivate sets the active flag to false and changes nothing else;
\* cleanup_expired sets the active flag to false for exactly the keys whose
\* expiration is set and earlier than now; each leaves every other key as
\* it was
C29_KeyLifecycle == [][C29_Rotate /\ C29_Deactivate /\ C29_Cleanup]_vars


(***************************************************************************)
(* Signature Version 4 (crates/auth/src/sigv4.rs).                         *)
(*                                                                         *)
(* A string is the sequence of its characters.  SHA-256 and HMAC-SHA256    *)
(* are taken to be free of collisions: a digest is a value that records    *)
(* what was hashed, so two digests are equal exactly when their inputs     *)
(* are.                                                                    *)
(***************************************************************************)
\* the byte of each character the requests of the model use
AsciiOf(c) ==
    CASE c = " " -> 32
      [] c = "%" -> 37
      [] c = "&" -> 38
      [] c = "/" -> 47
      [] c = "0" -> 48
      [] c = "1" -> 49
      [] c = "2" -> 50
      [] c = "3" -> 51
      [] c = "5" -> 53
      [] c = "6" -> 54
      [] c = "=" -> 61
      [] c = "D" -> 68
      [] c = "F" -> 70
      [] c = "a" -> 97
      [] c = "b" -> 98
      [] c = "x" -> 120
      [] c = "y" -> 121

\* String's Ord: byte by byte, a proper prefix is smaller
RECURSIVE StrLess(_, _)
StrLess(a, b) ==
    IF b = <<>> THEN FALSE
    ELSE IF a = <<>> THEN TRUE
    ELSE IF a[1] # b[1] THEN AsciiOf(a[1]) < AsciiOf(b[1])
    ELSE StrLess(Tail(a), Tail(b))

\* str::split: the pieces between the separators, at least one
RECURSIVE Split(_, _)
Split(str, sep) ==
    IF \A i \in 1..Len(str) : str[i] # sep THEN <<str>>
    ELSE LET i == CHOOSE j \in 1..Len(str) :
                     str[j] = sep /\ \A k \in 1..(j - 1) : str[k] # sep
         IN  <<SubSeq(str, 1, i - 1)>> \o Split(SubSeq(str, i + 1, Len(str)), sep)

\* [String]::join
RECURSIVE Join(_, _)
Join(strs, sep) ==
    IF strs = <<>> THEN <<>>
    ELSE IF Len(strs) = 1 THEN strs[1]
    ELSE strs[1] \o sep \o Join(Tail(strs), sep)

\* urlencoding::encode: letters, digits, "-", "_", "." and "~" stay, every
\* other byte becomes "%" and its two hexadecimal digits
PercentEncoded(c) ==
    CASE c = " " -> <<"%", "2", "0">>
      [] c = "%" -> <<"%", "2", "5">>
      [] c = "&" -> <<"%", "2", "6">>
      [] c = "/" -> <<"%", "2", "F">>
      [] c = "=" -> <<"%", "3", "D">>
      [] OTHER -> <<c>>

RECURSIVE urlencode(_)
urlencode(str) ==
    IF str = <<>> THEN <<>> ELSE PercentEncoded(Head(str)) \o urlencode(Tail(str))

\* Vec<String>::sort, by insertion
RECURSIVE SortStrings(_)
SortStrings(strs) ==
    IF strs = <<>> THEN <<>>
    ELSE LET rest == SortStrings(Tail(strs))
             x == Head(strs)
             n == Cardinality({i \in 1..Len(rest) : StrLess(rest[i], x)})
         IN  SubSeq(rest, 1, n) \o <<x>> \o SubSeq(rest, n + 1, Len(rest))

MapSeq(Op(_), seq) == [i \in 1..Len(seq) |-> Op(seq[i])]

canonical_uri_encode(uri) ==
    IF uri = <<>> THEN <<"/">>
    ELSE Join(MapSeq(urlencode, Split(uri, "/")), <<"/">>)

\* one parameter of the query: key and value at the first "=", or the whole
\* parameter as the key of an empty value
CanonicalParam(param) ==
    IF \E i \in 1..Len(param) : param[i] = "="
    THEN LET i == CHOOSE j \in 1..Len(param) :
                     param[j] = "=" /\ \A k \in 1..(j - 1) : param[k] # "="
         IN  urlencode(SubSeq(param, 1, i - 1)) \o <<"=">>
                 \o urlencode(SubSeq(param, i + 1, Len(param)))
    ELSE urlencode(param) \o <<"=">>

canonical_query_string(query) ==
    IF query = <<>> THEN <<>>
    ELSE Join(SortStrings(MapSeq(CanonicalParam, Split(query, "&"))), <<"&">>)

\* str::trim, of spaces
RECURSIVE TrimStart(_)
TrimStart(str) == IF str # <<>> /\ Head(str) = " " THEN TrimStart(Tail(str)) ELSE str

RECURSIVE TrimEnd(_)
TrimEnd(str) ==
    IF str # <<>> /\ str[Len(str)] = " " THEN TrimEnd(SubSeq(str, 1, Len(str) - 1))
    ELSE str

Trim(str) == TrimEnd(TrimStart(str))

to_lowercase(str) == MapSeq(ToAsciiLower, str)

\* the headers, a map from name to value, as the sequence of (lowercase
\* name, trimmed value) sorted by name.  The requests of the model have no
\* two names that differ in case only.
RECURSIVE SortedHeaders(_)
SortedHeaders(headers) ==
    IF headers = {} THEN <<>>
    ELSE LET h == CHOOSE x \in headers :
                     \A y \in headers \ {x} :
                        StrLess(to_lowercase(x.name), to_lowercase(y.name))
         IN  <<[name |-> to_lowercase(h.name), value |-> Trim(h.value)]>>
                 \o SortedHeaders(headers \ {h})

HeaderLine(h) == h.name \o <<":">> \o h.value

HeaderName(h) == h.name

\* the pair (canonical headers, signed headers)
canonical_headers(headers) ==
    LET sorted_headers == SortedHeaders(headers)
    IN  [canonical_headers |-> Join(MapSeq(HeaderLine, sorted_headers), <<"\n">>) \o <<"\n">>,
         signed_headers |-> Join(MapSeq(HeaderName, sorted_headers), <<";">>)]

\* a canonical request that leaves the payload hash out
canonical_request_without_payload(method, uri, query_string, headers, payload_hash) ==
    LET ch == canonical_headers(headers)
    IN  Join(<<method, canonical_uri_encode(uri), canonical_query_string(query_string),
               ch.canonical_headers, ch.signed_headers>>, <<"\n">>)

create_canonical_request(method, uri, query_string, headers, payload_hash) ==
    LET ch == canonical_headers(headers)
    IN  Join(<<method, canonical_uri_encode(uri), canonical_query_string(query_string),
               ch.canonical_headers, ch.signed_headers, payload_hash>>, <<"\n">>)

Sha256Hex(bytes) == [sha256 |-> bytes]

HmacSha256(key, bytes) == [hmac |-> key, of |-> bytes]

\* timestamp.format("%Y%m%d"): a day is 86400 seconds
FormatDate(timestamp) == <<timestamp.year, timestamp.sec \div 86400>>

\* timestamp.format("%Y%m%dT%H%M%SZ"): the fraction of the second is dropped
FormatDateTime(timestamp) == <<timestamp.year, timestamp.sec>>

\* the four lines of the string to sign
create_string_to_sign(canonical_request, timestamp, region, service) ==
    [algorithm |-> "AWS4-HMAC-SHA256",
     timestamp |-> FormatDateTime(timestamp),
     credential_scope |-> <<FormatDate(timestamp), region, service, "aws4_request">>,
     hashed_canonical_request |-> Sha256Hex(canonical_request)]

get_signing_key(secret_key, timestamp, region, service) ==
    LET k_secret == <<"AWS4", secret_key>>
        k_date == HmacSha256(k_secret, FormatDate(timestamp))
        k_region == HmacSha256(k_date, region)
        k_service == HmacSha256(k_region, service)
    IN  HmacSha256(k_service, "aws4_request")

\* hex::encode of the signature: one element stands for the 64 digits
calculate_signature(signing_key, string_to_sign) ==
    <<HmacSha256(signing_key, string_to_sign)>>


\* String == String: slices of different lengths are unequal at once,
\* slices of one length are compared byte by byte up to the first
\* difference.  compared is the number of bytes looked at.
str_eq(a, b) ==
    IF Len(a) # Len(b) THEN [equal |-> FALSE, compared |-> 0]
    ELSE LET diff == {i \in 1..Len(a) : a[i] # b[i]}
         IN  IF diff = {} THEN [equal |-> TRUE, compared |-> Len(a)]
             ELSE [equal |-> FALSE,
                   compared |-> CHOOSE i \in diff : \A j \in diff : i <= j]

\* a Duration is whole seconds and a fraction in nanoseconds, 0 to 999999999
DurationMinutes(m) == [secs |-> 60 * m, nanos |-> 0]

\* a - b for two instants of one year (the requests of the model carry a
\* timestamp of the server's year); the clock shows whole seconds
Since(a, b) ==
    IF b.nanos = 0 THEN [secs |-> a.sec - b.sec, nanos |-> 0]
    ELSE [secs |-> a.sec - b.sec - 1, nanos |-> 1000000000 - b.nanos]

DurationAbs(d) ==
    IF d.secs >= 0 THEN d
    ELSE IF d.nanos = 0 THEN [secs |-> 0 - d.secs, nanos |-> 0]
    ELSE [secs |-> (0 - d.secs) - 1, nanos |-> 1000000000 - d.nanos]

\* Duration's order with "at least" in place of "more than"
DurationAtLeast(d, e) == d.secs > e.secs \/ (d.secs = e.secs /\ d.nanos >= e.nanos)

DurationGreater(d, e) == d.secs > e.secs \/ (d.secs = e.secs /\ d.nanos > e.nanos)

Ok(value) == [ok |-> TRUE, value |-> value]

Err(message) == [ok |-> FALSE, error |-> message]

\* SigV4Validator::validate_signature, called when the clock shows at
SigV4Validate(secret_key, method, uri, query_string, headers, payload_hash, signature, timestamp, region, service, at) ==
    LET max_age == DurationMinutes(15)
        canonical_request ==
            create_canonical_request(method, uri, query_string, headers, payload_hash)
        string_to_sign ==
            create_string_to_sign(canonical_request, timestamp, region, service)
        signing_key == get_signing_key(secret_key, timestamp, region, service)
        expected_signature == calculate_signature(signing_key, string_to_sign)
    IN  IF DurationGreater(DurationAbs(Since(at, timestamp)), max_age)
        THEN Err("Request timestamp too old")
        ELSE Ok(str_eq(expected_signature, signature).equal)

\* AuthService::validate_signature: its possible results
AuthValidate(keys, at, request) ==
    {IF ~found.ok THEN Err("decode")
     ELSE IF found.value = None THEN Err("Access key not found")
     ELSE LET access_key == found.value[1]
              is_valid == SigV4Validate(access_key.secret_access_key, request.method,
                              request.uri, request.query_string, request.signed_headers,
                              request.payload_hash, request.signature, request.timestamp,
                              request.region, request.service, at)
          IN  IF /\ access_key.expires_at # None
                 /\ InstantLess(InstantOf(access_key.expires_at[1]), at)
              THEN Err("Access key expired")
              ELSE IF ~is_valid.ok THEN is_valid
              ELSE IF ~is_valid.value THEN Err("Invalid signature")
              ELSE Ok([access_key_id |-> access_key.access_key_id,
                       authenticated |-> TRUE,
                       policies |-> access_key.policies]) :
     found \in find_by_access_key_id(keys, request.access_key_id)}

\* a call of AuthService::validate_signature
ValidateSignature(request) ==
    /\ \E result \in AuthValidate(access_keys, now, request) :
          last' = [op |-> "validate_signature", req |-> request, at |-> now,
                   result |-> result]
    /\ UNCHANGED <<catalog, store, nextBucketId, nextUploadId, tasks, authVars>>

\* the signature the holder of a secret computes for a request
Sign(secret, request) ==
    calculate_signature(
        get_signing_key(secret, request.timestamp, request.region, request.service),
        create_string_to_sign(
            create_canonical_request(request.method, request.uri, request.query_string,
                                     request.signed_headers, request.payload_hash),
            request.timestamp, request.region, request.service))


(***************************************************************************)
(* Requests that reach signature validation while keys are created,        *)
(* deactivated and expire.                                                 *)
(***************************************************************************)
Region == "us-east-1"

Service == "s3"

\* a GET of /a with one signed header, sent under an access key id with a
\* timestamp; the signature is filled in by SignedBy
PlainRequest(access_key_id, timestamp) ==
    [access_key_id |-> access_key_id, signature |-> <<>>,
     signed_headers |-> {[name |-> <<"a">>, value |-> <<"x">>]},
     method |-> <<"G", "E", "T">>, uri |-> <<"/", "a">>, query_string |-> <<>>,
     payload_hash |-> <<"0">>, timestamp |-> timestamp,
     region |-> Region, service |-> Service]

SignedBy(secret, request) == [request EXCEPT !.signature = Sign(secret, request)]

\* the secret of someone who holds none of the keys
Guess == "guess"

\* seconds between the server's clock and the timestamp of a request
SkewSeconds == {-901, -900, 0, 900, 901}

HalfSecond == 500000000

TimestampAt(at, skew, nanos) == [year |-> at.year, sec |-> at.sec + skew, nanos |-> nanos]

SkewRequests(at) ==
    {SignedBy(secret, PlainRequest(k, TimestampAt(at, skew, nanos))) :
        secret \in Secrets \cup {Guess}, k \in AccessKeyIds,
        skew \in SkewSeconds, nanos \in {0, HalfSecond}}

\* ApiError's Display, the Message of the error body
ErrorMessage(kind, detail) ==
    CASE kind = "AuthenticationFailed" -> <<"Authentication failed: ", detail>>
      [] kind = "AuthorizationFailed" -> <<"Authorization failed: ", detail>>
      [] kind = "Storage" -> <<"Storage operation failed">>
      [] kind \in {"Internal", "Database"} -> <<"Internal server error">>

ErrorBody(kind, detail) ==
    [status |-> ErrorStatus(kind), code |-> ErrorCode(kind),
     message |-> ErrorMessage(kind, detail)]

\* an authentication layer that passes on the error of the validation
CauseAsDetail(result) == result.error

\* The authentication layer (crates/api/src/middleware.rs): a request
\* whose validation fails is answered with AuthenticationFailed and a detail
\* that is the same for every cause; any other request goes on to its
\* handler.
AuthFailureDetail(result) == "access denied"

Forwarded == [status |-> 0, code |-> "", message |-> <<>>]

AuthMiddleware(request) ==
    /\ \E result \in AuthValidate(access_keys, now, request) :
          last' = [op |-> "authenticate", req |-> request, at |-> now,
                   result |-> result,
                   response |-> IF result.ok THEN Forwarded
                                ELSE ErrorBody("AuthenticationFailed",
                                               AuthFailureDetail(result))]
    /\ UNCHANGED <<catalog, store, nextBucketId, nextUploadId, tasks, authVars>>

NextAuth ==
    \/ CreateAccessKey(2, "AKIA2", "secret2", <<>>, Some(PlusDays(now, 0)))
    \/ \E k \in AccessKeyIds : Deactivate(k)
    \/ Tick
    \/ \E request \in SkewRequests(now) : ValidateSignature(request)
    \/ \E request \in SkewRequests(now) : AuthMiddleware(request)

SpecAuth == Init /\ [][NextAuth]_vars

\* the timestamp is more than 15 minutes before or after the instant
OutOfSkew(timestamp, at) ==
    LET ds == timestamp.sec - at.sec
    IN  \/ ds > 900
        \/ ds = 900 /\ timestamp.nanos > 0
        \/ ds < -900

\* C25: signature validation rejects every request whose timestamp is more
\* than 15 minutes before or after the server's time, whatever its
\* signature, and it gives the timestamp error for no request whose
\* timestamp is within 15 minutes
C25_ClockSkew ==
    last.op = "validate_signature" =>
        /\ OutOfSkew(last.req.timestamp, last.at) => ~last.result.ok
        /\ (~last.result.ok /\ last.result.error = "Request timestamp too old")
              => OutOfSkew(last.req.timestamp, last.at)

\* a request signed with the secret of its active key, half a second beyond
\* the 15 minutes, was rejected for its timestamp
C25_Witness ==
    /\ last.op = "validate_signature"
    /\ \E r \in access_keys :
          /\ r.access_key_id = last.req.access_key_id
          /\ r.is_active
          /\ last.req.signature = Sign(r.secret_access_key, last.req)
    /\ last.req.timestamp.sec = last.at.sec + 900
    /\ last.req.timestamp.nanos = HalfSecond
    /\ ~last.result.ok
    /\ last.result.error = "Request timestamp too old"

\* a request of exactly 15 minutes ago with the right signature was accepted
C25_WitnessEdge ==
    /\ last.op = "validate_signature"
    /\ last.req.timestamp.sec = last.at.sec - 900
    /\ last.req.timestamp.nanos = 0
    /\ last.result.ok


AuthCauses ==
    {"Access key not found", "Invalid signature", "Access key expired",
     "Request timestamp too old"}

FailedAuth(l) == l.op = "authenticate" /\ ~l.result.ok /\ l.result.error \in AuthCauses

Methods == {<<"G", "E", "T">>, <<"P", "U", "T">>}

Uris == {<<>>, <<"/">>, <<"/", "a">>}

QueryStrings == {<<>>, <<"a">>, <<"a", "=">>, <<"a", "&", "b">>, <<"b", "&", "a">>}

HeaderValues == {<<"x">>, <<" ", "x">>, <<"y">>}

PayloadHashes == {<<"0">>, <<"1">>}

\* the server's second, half a second later, the next second
SignedTimestamps(at) ==
    {TimestampAt(at, 0, 0), TimestampAt(at, 0, HalfSecond), TimestampAt(at, 1, 0)}

SigV4Request(v, m, u, q, p, t) ==
    [access_key_id |-> DefaultKey.access_key_id, signature |-> <<>>,
     signed_headers |-> {[name |-> <<"a">>, value |-> v],
                         [name |-> <<"B">>, value |-> <<"x">>]},
     method |-> m, uri |-> u, query_string |-> q, payload_hash |-> p,
     timestamp |-> t, region |-> Region, service |-> Service]

\* every such request signed with the secret of the key, and two signed by
\* someone who does not hold it
SigV4Requests(at) ==
    {SignedBy(DefaultKey.secret_access_key, SigV4Request(v, m, u, q, p, t)) :
        v \in HeaderValues, m \in Methods, u \in Uris, q \in QueryStrings,
        p \in PayloadHashes, t \in SignedTimestamps(at)}
    \cup {SignedBy(Guess, SigV4Request(<<"x">>, <<"G", "E", "T">>, <<"/">>, <<>>, p,
                                       TimestampAt(at, 0, 0))) : p \in PayloadHashes}

NextSigV4 ==
    \E request \in SigV4Requests(now) : ValidateSignature(request)

SpecSigV4 == Init /\ [][NextSigV4]_vars

Accepted(l) == l.op = "validate_signature" /\ l.result.ok

\* the two requests differ in the payload hash, a signed header value, the
\* method, the URI, the raw query string or the timestamp
Differ(r1, r2) ==
    \/ r1.payload_hash # r2.payload_hash
    \/ r1.signed_headers # r2.signed_headers
    \/ r1.method # r2.method
    \/ r1.uri # r2.uri
    \/ r1.query_string # r2.query_string
    \/ r1.timestamp # r2.timestamp

\* C27 as stated: of two requests that differ in the payload hash, a signed
\* header value, the method, the URI, the raw query string or the timestamp,
\* the signature accepted for one is not accepted for the other
C27_Sensitivity ==
    [][Accepted(last) /\ Accepted(last') /\ Differ(last.req, last'.req)
          => last'.req.signature # last.req.signature]_vars

\* the parameters of a raw query string: key and value at the first "=", a
\* parameter without "=" has the empty value
ParamOf(param) ==
    IF \E i \in 1..Len(param) : param[i] = "="
    THEN LET i == CHOOSE j \in 1..Len(param) :
                     param[j] = "=" /\ \A k \in 1..(j - 1) : param[k] # "="
         IN  [key |-> SubSeq(param, 1, i - 1), value |-> SubSeq(param, i + 1, Len(param))]
    ELSE [key |-> param, value |-> <<>>]

ParamsOf(query) == IF query = <<>> THEN <<>> ELSE MapSeq(ParamOf, Split(query, "&"))

\* the same parameters, each as many times, in any order
SameParams(ps, qs) ==
    /\ Len(ps) = Len(qs)
    /\ \A x \in {ps[i] : i \in 1..Len(ps)} \cup {qs[i] : i \in 1..Len(qs)} :
          Cardinality({i \in 1..Len(ps) : ps[i] = x})
              = Cardinality({i \in 1..Len(qs) : qs[i] = x})

TrimmedHeaders(headers) ==
    {[name |-> to_lowercase(h.name), value |-> Trim(h.value)] : h \in headers}

\* the two requests say the same to a SigV4 verifier
SameSigned(r1, r2) ==
    /\ r1.payload_hash = r2.payload_hash
    /\ r1.method = r2.method
    /\ r1.uri = r2.uri \/ {r1.uri, r2.uri} = {<<>>, <<"/">>}
    /\ SameParams(ParamsOf(r1.query_string), ParamsOf(r2.query_string))
    /\ TrimmedHeaders(r1.signed_headers) = TrimmedHeaders(r2.signed_headers)
    /\ r1.timestamp.year = r2.timestamp.year
    /\ r1.timestamp.sec = r2.timestamp.sec

\* C27, amended: of two requests that differ in the payload hash, the
\* method, a signed header value apart from surrounding whitespace, the URI
\* apart from empty against "/", the query parameters apart from their order
\* and from a missing "=" before an empty value, or the second of the
\* timestamp, the signature accepted for one is not accepted for the other;
\* two requests that differ in none of these have the same signature
C27_SensitivityCanonical ==
    [][Accepted(last) /\ Accepted(last')
          => (last'.req.signature = last.req.signature
                 <=> SameSigned(last.req, last'.req))]_vars

\* a request whose query parameters are not in order, whose header value
\* has a leading space and whose timestamp has a fraction was accepted
C27_Witness ==
    /\ Accepted(last)
    /\ last.req.query_string = <<"b", "&", "a">>
    /\ [name |-> <<"a">>, value |-> <<" ", "x">>] \in last.req.signed_headers
    /\ last.req.timestamp.nanos = HalfSecond


(***************************************************************************)
(* The comparison of the computed signature with the presented one, on     *)
(* signatures written out digit by digit (SigLen digits stand for the 64   *)
(* of a hex-encoded HMAC-SHA256).                                          *)
(***************************************************************************)
SigLen == 3

HexDigits == {"0", "f"}

HexStrings(n) == [1..n -> HexDigits]

PresentedSignatures == UNION {HexStrings(n) : n \in 0..SigLen}

\* the last line of SigV4Validator::validate_signature
CompareSignature(expected_signature, signature) ==
    /\ last' = [op |-> "compare",
                req |-> [expected_signature |-> expected_signature,
                         signature |-> signature],
                result |-> str_eq(expected_signature, signature)]
    /\ UNCHANGED <<catalog, store, nextBucketId, nextUploadId, tasks, authVars>>

NextCompare ==
    \E expected_signature \in HexStrings(SigLen), signature \in PresentedSignatures :
        CompareSignature(expected_signature, signature)

SpecCompare == Init /\ [][NextCompare]_vars

\* a comparison of a signature of the full length that is not the computed one
Mismatch(l) ==
    /\ l.op = "compare"
    /\ Len(l.req.signature) = Len(l.req.expected_signature)
    /\ ~l.result.equal

\* C28: the work of comparing the computed signature with a presented one
\* of the same length does not depend on where the two first differ: two
\* mismatches against one computed signature look at as many bytes
C28_ConstantTime ==
    [][Mismatch(last) /\ Mismatch(last')
        /\ last.req.expected_signature = last'.req.expected_signature
          => last'.result.compared = last.result.compared]_vars


(***************************************************************************)
(* delete_object, call by call, and a PUT or a DELETE that runs alone and  *)
(* may be cut off after any call (the process ends; catalog and files      *)
(* stay as they are and the server takes requests again).                  *)
(***************************************************************************)
BeginDeleteObject(t, bucket_name, key) ==
    /\ tasks[t] = Idle
    /\ Advance(t, [op |-> "DeleteObject", pc |-> "find_by_name",
                   req |-> [bucket |-> bucket_name, key |-> key],
                   resp |-> Pending, bucket |-> <<>>])
    /\ UNCHANGED <<catalog, store, nextBucketId, nextUploadId, authVars>>

\* a handler that removes the blob before the row
delete_blob_first(pc) ==
    CASE pc = "find_by_name" -> "delete_object"
      [] pc = "delete_object" -> "delete"
      [] pc = "delete" -> "done"

\* the order of the calls of delete_object: the row, then the blob
delete_next(pc) ==
    CASE pc = "find_by_name" -> "delete"
      [] pc = "delete" -> "delete_object"
      [] pc = "delete_object" -> "done"

\* the call at pc returned: on to the next one, or 204 after the last
DeleteAdvance(t, T) ==
    IF delete_next(T.pc) = "done"
    THEN Respond(t, Success("DeleteObject", T.req, 204, <<>>, -1, <<>>))
    ELSE Advance(t, [T EXCEPT !.pc = delete_next(T.pc)])

StepDeleteObject(t) ==
    LET T == tasks[t]
        req == T.req
        found == BucketFindByName(buckets, req.bucket)
        del == delete_object(store, req.bucket, req.key)
    IN  /\ T.op = "DeleteObject"
        /\ \/ /\ T.pc = "find_by_name"
              /\ IF found = {} THEN Fail(t, "BucketNotFound")
                 ELSE DeleteAdvance(t, [T EXCEPT !.bucket = TheRow(found)])
              /\ UNCHANGED <<catalog, store>>
           \/ /\ T.pc = "delete"
              /\ objects' = ObjectDelete(objects, T.bucket.id, req.key)
              /\ DeleteAdvance(t, T)
              /\ UNCHANGED <<buckets, uploads, parts, store>>
           \/ /\ T.pc = "delete_object"
              /\ store' = del.st
              /\ IF ~del.ok THEN Fail(t, "Storage") ELSE DeleteAdvance(t, T)
              /\ UNCHANGED catalog
        /\ UNCHANGED <<nextBucketId, nextUploadId, authVars>>

NextCrash ==
    \/ NoTasks /\ CreateBucket(BK1)
    \/ \E t \in TaskIds, k \in Keys, body \in {OldBlob, NewBlob} :
          NoTasks /\ store.tmp < MaxTmp /\ BeginPutObject(t, BK1, k, body)
    \/ \E t \in TaskIds : StepPutObject(t)
    \/ \E t \in TaskIds, k \in Keys : NoTasks /\ BeginDeleteObject(t, BK1, k)
    \/ \E t \in TaskIds : StepDeleteObject(t)
    \/ \E t \in TaskIds : Cancel(t)
    \/ \E t \in TaskIds : Retire(t)

SpecCrash == Init /\ [][NextCrash]_vars

\* the bucket has a row for the key
HasRow(bucket_name, key) ==
    \E b \in buckets : b.name = bucket_name
        /\ ObjectFindByBucketAndKey(objects, b.id, key) # {}

HasBlob(bucket_name, key) == store.data[object_path(bucket_name, key)].kind = "file"

\* C30: whenever a PUT or a DELETE that runs alone is cut off, and at every
\* call in between, a key with an object row has a blob at its path
C30_VisibleImpliesReadable ==
    \A k \in Keys : HasRow(BK1, k) => HasBlob(BK1, k)

\* a DELETE of a stored key was cut off after the row was removed: the blob
\* is left without a row
C30_Witness ==
    \E t \in TaskIds :
        /\ tasks[t].op = "DeleteObject"
        /\ tasks[t].pc = "done"
        /\ tasks[t].resp.code = "Panic"
        /\ ~HasRow(BK1, tasks[t].req.key)
        /\ HasBlob(BK1, tasks[t].req.key)

\* a PUT of a new key was cut off after the rename: the blob is there
\* without a row
C30_WitnessPut ==
    \E t \in TaskIds :
        /\ tasks[t].op = "PutObject"
        /\ tasks[t].pc = "done"
        /\ tasks[t].resp.code = "Panic"
        /\ ~HasRow(BK1, tasks[t].req.key)
        /\ HasBlob(BK1, tasks[t].req.key)


(***************************************************************************)
(* The router (crates/api/src/lib.rs, create_router) as the gateway serves *)
(* it.  A request is a method, a path /bucket or /bucket/key, the query    *)
(* parameters uploads, uploadId and partNumber, a body, and the SigV4      *)
(* parameters of its Authorization header, if it has one.  The layers of   *)
(* the router (trace, compression, CORS) and of the gateway (security      *)
(* headers) pass every request on to its handler.                          *)
(***************************************************************************)
MethodText(method) ==
    CASE method = "GET" -> <<"G", "E", "T">>
      [] method = "HEAD" -> <<"H", "E", "A", "D">>
      [] method = "PUT" -> <<"P", "U", "T">>
      [] method = "POST" -> <<"P", "O", "S", "T">>
      [] method = "DELETE" -> <<"D", "E", "L", "E", "T", "E">>

\* the path of a bucket or of an object
UriOf(bucket_name, key) ==
    <<"/">> \o bucket_name
        \o (IF key = <<>> THEN <<>>
            ELSE <<"/">> \o Join([i \in 1..Len(key) |-> <<key[i]>>], <<"/">>))

\* the SigV4 parameters a client holding secret sends with a request
Authorization(secret, method, bucket_name, key, at) ==
    SignedBy(secret, [PlainRequest(DefaultKey.access_key_id, TimestampAt(at, 0, 0))
                         EXCEPT !.method = MethodText(method),
                                !.uri = UriOf(bucket_name, key)])

\* no header, the signature of the key's holder, the signature of a stranger
Authorizations(method, bucket_name, key, at) ==
    {None} \cup {Some(Authorization(secret, method, bucket_name, key, at)) :
                    secret \in {DefaultKey.secret_access_key, Guess}}

RouterRequest(method, bucket_name, key, has_uploads, upload_id, part_number, body) ==
    [method |-> method, bucket |-> bucket_name, key |-> key, uploads |-> has_uploads,
     upload_id |-> upload_id, part_number |-> part_number, body |-> body]

\* the requests without their Authorization
RouterRequests ==
    {RouterRequest(m, BK1, <<>>, FALSE, None, None, <<>>) : m \in {"PUT", "GET", "DELETE"}}
    \cup {RouterRequest(m, BK1, KeyA, FALSE, None, None, Iota(1)) :
             m \in {"PUT", "GET", "HEAD", "DELETE", "POST"}}
    \cup {RouterRequest("PUT", BK1, KeyA, FALSE, Some(1), Some(1), Iota(1)),
          RouterRequest("POST", BK1, KeyA, TRUE, None, None, <<>>),
          RouterRequest("POST", BK1, KeyA, FALSE, Some(1), None, <<>>),
          RouterRequest("DELETE", BK1, KeyA, FALSE, Some(1), None, <<>>)}

\* create_router: the handler of the route of request r runs; authorization
\* is what the request carries in its Authorization header
Route(r, authorization) ==
    \/ r.method = "PUT" /\ r.key = <<>> /\ CreateBucket(r.bucket)
    \/ r.method = "GET" /\ r.key = <<>> /\ ListObjects(r.bucket, <<>>, <<>>)
    \/ r.method = "DELETE" /\ r.key = <<>> /\ DeleteBucket(r.bucket)
    \/ /\ r.method = "PUT" /\ r.key # <<>>
       /\ IF r.upload_id # None /\ r.part_number # None
          THEN UploadPart(r.bucket, r.key, r.upload_id[1], r.part_number[1], r.body)
          ELSE PutObject(r.bucket, r.key, r.body)
    \/ /\ r.method = "POST" /\ r.key # <<>>
       /\ IF r.uploads THEN CreateMultipartUpload(r.bucket, r.key)
          ELSE IF r.upload_id # None
          THEN CompleteMultipartUpload(r.bucket, r.key, r.upload_id[1],
                                       ClientParts(r.upload_id[1], <<1>>))
          ELSE /\ last' = into_response("Post", [bucket |-> r.bucket, key |-> r.key],
                                        "BadRequest")
               /\ UNCHANGED <<catalog, store, nextBucketId, nextUploadId, tasks, authVars>>
    \/ /\ r.method = "DELETE" /\ r.key # <<>>
       /\ IF r.upload_id # None
          THEN AbortMultipartUpload(r.bucket, r.key, r.upload_id[1])
          ELSE DeleteObject(r.bucket, r.key)
    \/ r.method = "GET" /\ r.key # <<>> /\ GetObject(r.bucket, r.key, <<>>, 1, TRUE)
    \/ r.method = "HEAD" /\ r.key # <<>> /\ HeadObject(r.bucket, r.key)

NextRouter ==
    \E r \in RouterRequests :
        \E authorization \in Authorizations(r.method, r.bucket, r.key, now) :
            Route(r, authorization)

SpecRouter == Init /\ [][NextRouter]_vars

\* SigV4 validation of the request succeeds: its access key is known and
\* active, its signature matches, its timestamp is within the skew
Authenticated(authorization) ==
    /\ authorization # None
    /\ \A result \in AuthValidate(access_keys, now, authorization[1]) : result.ok

\* C24: a step in which a handler of the router changes the catalog or the
\* files, or answers with success from them, serves a request whose SigV4
\* validation succeeds
C24_AuthGate ==
    [][\A r \in RouterRequests :
          \A authorization \in Authorizations(r.method, r.bucket, r.key, now) :
             (/\ Route(r, authorization)
              /\ \/ catalog' # catalog
                 \/ store' # store
                 \/ last'.status \in 200..299)
                => Authenticated(authorization)]_vars

(***************************************************************************)
(* The order of the calls of complete_multipart_upload.  One request at a  *)
(* time completes the upload of key a from its parts 2 and 10, call by     *)
(* call; it may be cut off after any call (the process ends, the client    *)
(* goes away) and a later request then runs on what was left behind.  The  *)
(* key may hold an object of a PUT made before the upload was created.     *)
(***************************************************************************)
\* the lists of part numbers the requests of SpecOrder send
OrderLists == {<<2, 10>>, <<10, 2>>, <<2>>}

NextOrder ==
    \/ NoTasks /\ CreateBucket(BK1)
    \/ NoTasks /\ nextUploadId = 1 /\ PutObject(BK1, KeyA, OldBlob)
    \/ NoTasks /\ CreateMultipartUpload(BK1, KeyA)
    \/ NoTasks /\ \E n \in PartNumbers : UploadPart(BK1, KeyA, 1, n, PartBody(n))
    \/ \E ns \in OrderLists :
          NoTasks /\ BeginCompleteMultipartUpload(1, BK1, KeyA, 1, ClientParts(1, ns))
    \/ StepCompleteMultipartUpload(1)
    \/ Cancel(1)
    \/ Retire(1)

SpecOrder == Init /\ [][NextOrder]_vars

\* the parts a request listing `numbers` names, as the engine sorts them:
\* each with the ETag UploadPart returned for it
OrderParts(numbers) ==
    SortParts([i \in 1..Len(numbers) |->
                  [part_number |-> numbers[i], etag |-> Md5Hex(PartBody(numbers[i]))]])

\* the bytes of the parts a request lists, in the order of their numbers
AssembledOf(numbers) ==
    Flatten([i \in 1..Len(numbers) |-> PartBody(OrderParts(numbers)[i].part_number)])

\* the object row a Complete request listing `numbers` inserts for key a
RowOf(numbers) ==
    {o \in objects : o.key = KeyA /\ o.etag = CompositeETag(OrderParts(numbers))}

\* C31: complete_multipart_upload resolves the upload, assembles the blob,
\* inserts the object row and deletes the part rows and the upload row in
\* that order: in every state, cut-off requests included, the object row a
\* Complete has inserted for the key is there only with the whole
\* assembled blob at the key's path, and a step that deletes a part row or
\* the upload row is taken only when the object row is there
C31_CompleteOrdering ==
    [][ /\ \A ns \in OrderLists :
              RowOf(ns)' # {} => BlobNow(BK1, KeyA)' = AssembledOf(ns)
        /\ (parts \ parts' # {} \/ uploads \ uploads' # {})
              => ObjectFindByBucketAndKey(objects, 1, KeyA) # {} ]_vars

\* a request cut off between the insert of the object row and the cleanup:
\* the row and the blob are there, and so are the upload's rows
C31_Witness ==
    /\ Done(1, "CompleteMultipartUpload")
    /\ tasks[1].resp.status = 0
    /\ RowOf(<<2, 10>>) # {}
    /\ BlobNow(BK1, KeyA) = AssembledOf(<<2, 10>>)
    /\ uploads # {}
    /\ parts # {}

\* a request that ran to its end: 200, the row is there, the upload's rows
\* are gone
C31_WitnessDone ==
    /\ Done(1, "CompleteMultipartUpload")
    /\ tasks[1].resp.status = 200
    /\ RowOf(<<2, 10>>) # {}
    /\ uploads = {}
    /\ parts = {}

(***************************************************************************)
(* The life of a bucket name: bucket b is created, filled, deleted and     *)
(* created again (under a new id), with objects and one multipart upload   *)
(* on key a.                                                               *)
(***************************************************************************)
LifeBody == Iota(1)

LifeLists == {<<2>>, <<2, 10>>}

NextLife ==
    \/ CreateBucket(BK1)
    \/ DeleteBucket(BK1)
    \/ \E k \in Keys : PutObject(BK1, k, LifeBody)
    \/ DeleteObject(BK1, KeyA)
    \/ \E k \in Keys : GetObject(BK1, k, <<>>, MaxChunk, TRUE)
    \/ \E k \in Keys : HeadObject(BK1, k)
    \/ ListObjects(BK1, None, None)
    \/ CreateMultipartUpload(BK1, KeyA)
    \/ \E n \in PartNumbers : UploadPart(BK1, KeyA, 1, n, PartBody(n))
    \/ \E ns \in LifeLists : CompleteMultipartUpload(BK1, KeyA, 1, ClientParts(1, ns))
    \/ AbortMultipartUpload(BK1, KeyA, 1)

SpecLife == Init /\ [][NextLife]_vars

\* C32: in every reachable catalog state, after bucket, object and
\* multipart operations including DeleteBucket, (bucket_id, key) is unique
\* among the object rows, every part row references an upload row, every
\* upload row and every object row references a bucket row, and a step
\* that deletes an upload row leaves no part row of that upload
C32_RelationalInvariants ==
    [][ /\ \A o1 \in objects' : \A o2 \in objects' :
              (o1.bucket_id = o2.bucket_id /\ o1.key = o2.key) => o1 = o2
        /\ \A q \in parts' : \E u \in uploads' : u.id = q.upload_id
        /\ \A u \in uploads' : \E r \in buckets' : r.id = u.bucket_id
        /\ \A o \in objects' : \E r \in buckets' : r.id = o.bucket_id
        /\ \A u \in uploads \ uploads' : \A q \in parts' : q.upload_id # u.id ]_vars

\* DeleteBucket has just deleted a bucket that had an object row, an upload
\* row and a part row: none of them is left
C32_Witness ==
    /\ last.op = "DeleteBucket"
    /\ last.status = 204
    /\ nextUploadId > 1
    /\ store.mpu[1].files[2] # <<>>
    /\ store.data[object_path(BK1, KeyA)].kind = "file"
    /\ buckets = {}
    /\ objects = {}
    /\ uploads = {}
    /\ parts = {}

(***************************************************************************)
(* The ETags of a Complete request: for each part it lists the client      *)
(* sends the ETag UploadPart returned, or another one.                     *)
(***************************************************************************)
\* the parts of a request listing `numbers`, with a made-up ETag for the
\* part numbers in `wrong`
PartsWithETags(upload_id, numbers, wrong) ==
    [i \in 1..Len(numbers) |->
        [part_number |-> numbers[i],
         etag |-> IF numbers[i] \in wrong THEN Quote(BogusETag)
                  ELSE ClientETag(upload_id, numbers[i])]]

NextETag ==
    \/ CreateBucket(BK1)
    \/ CreateMultipartUpload(BK1, KeyA)
    \/ \E n \in PartNumbers, body \in PartBodies : UploadPart(BK1, KeyA, 1, n, body)
    \/ \E ns \in LifeLists, wrong \in SUBSET PartNumbers :
          CompleteMultipartUpload(BK1, KeyA, 1, PartsWithETags(1, ns, wrong))

SpecETag == Init /\ [][NextETag]_vars

\* the request lists a part that was not uploaded, or with an ETag other
\* than the one computed when it was uploaded
ETagMismatch(req) ==
    \E i \in 1..Len(req.parts) :
        LET rows == PartFindByUploadAndPart(parts, UploadRowId(req.upload_id),
                                            req.parts[i].part_number)
        IN  \/ rows = {}
            \/ TheRow(rows).etag # TrimQuotes(req.parts[i].etag)

\* C33: CompleteMultipartUpload checks, for every part the request lists,
\* that the part exists and that the client's ETag is the ETag computed
\* when the part was uploaded; a request with a part whose ETag does not
\* match is rejected and the upload (rows, part rows, part files) stays
C33_ETagValidation ==
    [][(CompletesNow /\ ETagMismatch(last'.req))
          => /\ last'.status \notin 200..299
             /\ UNCHANGED <<catalog, store>>]_vars

(***************************************************************************)
(* Catalog and storage side by side: PUT, DELETE and the multipart         *)
(* requests on the keys of one bucket, one request after the other, each   *)
(* run to its response.                                                    *)
(***************************************************************************)
ConvergeBodies == {Iota(1), Iota(2)}

NextConverge ==
    \/ CreateBucket(BK1)
    \/ \E k \in Keys, body \in ConvergeBodies : PutObject(BK1, k, body)
    \/ \E k \in Keys : DeleteObject(BK1, k)
    \/ CreateMultipartUpload(BK1, KeyA)
    \/ \E n \in PartNumbers : UploadPart(BK1, KeyA, 1, n, PartBody(n))
    \/ \E ns \in LifeLists : CompleteMultipartUpload(BK1, KeyA, 1, ClientParts(1, ns))
    \/ AbortMultipartUpload(BK1, KeyA, 1)

SpecConverge == Init /\ [][NextConverge]_vars

\* this step writes the blob of (bucket_name, key)
WritesBlob(bucket_name, key) ==
    LET path == object_path(bucket_name, key)
    IN  /\ store'.data[path].kind = "file"
        /\ store'.data[path] # store.data[path]

\* C34: after every request of a sequence of PUT, DELETE, Create, UploadPart,
\* Complete and Abort requests, each run to its response, every object row
\* has a blob at its path whose length is the row's size, and the row's
\* ETag is the one returned by the request that last wrote the blob
C34_Convergence ==
    [][\A k \in Keys : \A o \in RowsNow(BK1, k)' :
          /\ store'.data[object_path(BK1, k)].kind = "file"
          /\ o.size = Len(BlobNow(BK1, k)')
          /\ WritesBlob(BK1, k) => last'.etag = Quote(o.etag)]_vars

(***************************************************************************)
(* One PUT and one DELETE of the same key, running as two tasks whose      *)
(* calls interleave; the key is empty or holds an earlier object.          *)
(***************************************************************************)
NextPutDelete ==
    \/ NoTasks /\ CreateBucket(BK1)
    \/ NoTasks /\ PutObject(BK1, KeyA, OldBlob)
    \/ tasks[1] = Idle /\ store.tmp < MaxTmp /\ BeginPutObject(1, BK1, KeyA, NewBlob)
    \/ StepPutObject(1)
    \/ tasks[2] = Idle /\ BeginDeleteObject(2, BK1, KeyA)
    \/ StepDeleteObject(2)

SpecPutDelete == Init /\ [][NextPutDelete]_vars

\* C35: for every interleaving of one PUT(b,k,p) and one DELETE(b,k), once
\* both have returned the object row of (b,k) exists if and only if the
\* blob of (b,k) exists
C35_PutDeleteRace ==
    ( /\ Done(1, "PutObject")
      /\ Done(2, "DeleteObject") )
    => (HasRow(BK1, KeyA) <=> HasBlob(BK1, KeyA))

\* C36: after a CompleteMultipartUpload answered 200, the size in the
\* object's row is the length of the assembled blob, whatever parts the
\* request lists: all of the uploaded ones, some of them, or one twice
C36_CompleteSize ==
    [][(CompletesNow /\ last'.status = 200)
          => LET c == last'.req
                 rows == {o \in objects' :
                             /\ o.key = c.key
                             /\ \E r \in BucketFindByName(buckets', c.bucket) :
                                   r.id = o.bucket_id}
             IN  /\ rows # {}
                 /\ \A o \in rows :
                       o.size = Len(store'.data[object_path(c.bucket, c.key)].bytes)]_vars

\* the tasks whose CompleteMultipartUpload of upload 1 has been answered 200
Winners ==
    {t \in TaskIds : /\ Done(t, "CompleteMultipartUpload")
                     /\ tasks[t].req.upload_id = 1
                     /\ tasks[t].resp.status = 200}

\* C37: of the CompleteMultipartUpload requests with one uploadId, however
\* their calls interleave, at most one is answered 200; an object row is
\* inserted only while the key has none, so at most one is inserted; and
\* once a request has been answered 200 the upload row, its part rows and
\* its temp directory are gone
C37_CompleteOnce ==
    /\ [](/\ Cardinality(Winners) <= 1
          /\ Winners # {} => /\ UploadFindByUploadId(uploads, 1) = {}
                             /\ PartListByUpload(parts, UploadRowId(1)) = {}
                             /\ ~store.mpu[1].present)
    /\ [][objects' # objects
            => /\ RowsNow(BK1, KeyA) = {}
               /\ Cardinality(objects') = Cardinality(objects) + 1]_vars

\* two requests with the same uploadId have both passed the lookups while
\* the upload was open; one has been answered 200 and the other an error
C37_Witness ==
    \E t1 \in TaskIds : \E t2 \in TaskIds \ {t1} :
        /\ t1 \in Winners
        /\ Done(t2, "CompleteMultipartUpload")
        /\ tasks[t2].req.upload_id = 1
        /\ tasks[t2].resp.status >= 400
        /\ tasks[t2].upload # <<>>
        /\ Cardinality(RowsNow(BK1, KeyA)) = 1

\* the keys a listing of the bucket shows
ListedKeys(bucket_name) ==
    UNION {{o.key : o \in {r \in objects : r.bucket_id = b.id}} :
              b \in BucketFindByName(buckets, bucket_name)}

\* GET and HEAD of the key answer 404 and no listing shows it
Invisible(bucket_name, key) ==
    /\ GetNow(bucket_name, key).status = 404
    /\ HeadNow(bucket_name, key).status = 404
    /\ key \notin ListedKeys(bucket_name)

\* the upload ids handed out so far
CreatedUploads == {u \in UploadIds : u < nextUploadId}

\* C38: when DeleteBucket(b) has succeeded and b is created again, every key
\* of the old bucket answers NoSuchKey on GET and HEAD and is in no listing
\* until a PUT (or a Complete) of that key succeeds, and UploadPart, Complete
\* and Abort reject every uploadId created in the old bucket
C38_NoResurrection ==
    [][ /\ (StepOf("DeleteBucket") /\ last'.status = 204)
            => /\ \A k \in Keys : Invisible(BK1, k)'
               /\ uploads' = {}
        /\ (StepOf("CreateBucket") /\ last'.status = 200)
            => /\ \A k \in Keys : /\ Invisible(BK1, k)'
                                  /\ GetNow(BK1, k)'.code = "NoSuchKey"
                                  /\ HeadNow(BK1, k)'.code = "NoSuchKey"
               /\ uploads' = {}
        /\ \A k \in Keys :
              (Invisible(BK1, k) /\ ~Invisible(BK1, k)')
                  => /\ last'.op \in {"PutObject", "CompleteMultipartUpload"}
                     /\ last'.req.key = k
                     /\ last'.status = 200
        /\ \A u \in CreatedUploads :
              UploadFindByUploadId(uploads, u) = {}
                  => /\ UploadFindByUploadId(uploads', u) = {}
                     /\ ( /\ last'.op \in {"UploadPart", "CompleteMultipartUpload",
                                           "AbortMultipartUpload"}
                          /\ last'.req.upload_id = u
                          /\ vars' # vars )
                        => /\ last'.status = 400
                           /\ UNCHANGED <<catalog, store>> ]_vars

\* bucket b has been deleted and created again; the blob of key a and the
\* directory of upload 1, both of the old bucket, are still on disk, and a
\* GET of key a has just answered NoSuchKey
C38_Witness ==
    /\ \E r \in BucketFindByName(buckets, BK1) : r.id = 2
    /\ store.data[object_path(BK1, KeyA)].kind = "file"
    /\ store.mpu[1].present
    /\ objects = {}
    /\ last.op = "GetObject"
    /\ last.req.key = KeyA
    /\ last.code = "NoSuchKey"

\* ... and a Complete with the old uploadId has just been rejected
C38_WitnessUpload ==
    /\ \E r \in BucketFindByName(buckets, BK1) : r.id = 2
    /\ store.mpu[1].files[2] # <<>>
    /\ last.op = "CompleteMultipartUpload"
    /\ last.req.upload_id = 1
    /\ last.status = 400

(***************************************************************************)
(* Requests signed with the right secret while keys are deactivated,       *)
(* deleted and expire.  The default key has no expiration; the second key  *)
(* expires at the instant it is created.                                   *)
(***************************************************************************)
RevokeRequests(at) ==
    {SignedBy(secret, PlainRequest(k, TimestampAt(at, 0, 0))) :
        secret \in Secrets, k \in AccessKeyIds}

NextRevoke ==
    \/ CreateAccessKey(2, "AKIA2", "secret2", <<>>, Some(PlusDays(now, 0)))
    \/ \E k \in AccessKeyIds : Deactivate(k)
    \/ DeleteAccessKey("AKIA1")
    \/ CleanupExpired
    \/ Tick
    \/ \E request \in RevokeRequests(now) : ValidateSignature(request)

SpecRevoke == Init /\ [][NextRevoke]_vars

\* this step is a call of validate_signature: it records the request, the
\* instant of the call and the result in last, and changes nothing else
ValidatesNow == last'.op = "validate_signature" /\ last' # last

\* C39: validate_signature succeeds only for a request whose access key has
\* a row that is active and whose expiration, if it has one, has not
\* passed: never for a key that was deactivated or deleted or has expired,
\* whatever the signature and whether or not cleanup_expired has run
C39_RevokedKeysFail ==
    [][(ValidatesNow /\ last'.result.ok)
          => \E r \in access_keys :
                /\ r.access_key_id = last'.req.access_key_id
                /\ r.is_active
                /\ ~Expired(r, now)]_vars

\* the request carries the signature made with the secret `secret`
SignedWith(l, secret) == l.req.signature = Sign(secret, l.req)

\* a request signed with the secret of the second key, which has expired
\* and is still marked active, was rejected as expired
C39_Witness ==
    /\ last.op = "validate_signature"
    /\ last.at = now
    /\ \E r \in access_keys :
          /\ r.access_key_id = last.req.access_key_id
          /\ r.is_active
          /\ Expired(r, now)
          /\ SignedWith(last, r.secret_access_key)
    /\ ~last.result.ok
    /\ last.result.error = "Access key expired"

\* a request signed with the secret of the deactivated default key was
\* rejected
C39_WitnessDeactivated ==
    /\ last.op = "validate_signature"
    /\ last.req.access_key_id = "AKIA1"
    /\ SignedWith(last, "secret1")
    /\ \E r \in access_keys : r.access_key_id = "AKIA1" /\ ~r.is_active
    /\ ~last.result.ok

\* a request signed with the secret of the deleted default key was rejected
C39_WitnessDeleted ==
    /\ last.op = "validate_signature"
    /\ last.req.access_key_id = "AKIA1"
    /\ SignedWith(last, "secret1")
    /\ ~\E r \in access_keys : r.access_key_id = "AKIA1"
    /\ ~last.result.ok

\* a request signed with the secret of an active key was accepted
C39_WitnessAccepted ==
    /\ last.op = "validate_signature"
    /\ last.result.ok

=============================================================================
